---- MODULE Spec2Model ----
(***************************************************************************)
(* Game-session client protocol of the therapy platform frontend.          *)
(*                                                                         *)
(* Three React components implement the session/trial lifecycle:           *)
(*   JaGame           (frontend/src/pages/JaGame.jsx)                      *)
(*   GenericGame      (frontend/src/components/GenericGame.jsx)            *)
(*   MemoryMatchGame  (frontend/src/pages/games/MemoryMatchGame.jsx)       *)
(*                                                                         *)
(* React semantics kept by the model:                                      *)
(*  - hook state (useState) lives in a record per component (ja, gg, mm);  *)
(*    setX(...) calls update that record;                                  *)
(*  - event handlers are closures of the last committed render: they READ  *)
(*    the rendered snapshot (jaR, ggR, mmR), never the pending state;      *)
(*    functional updates (setX(prev => ...)) read the pending state;       *)
(*  - Render commits the pending state and runs the effects whose          *)
(*    dependencies changed;                                                *)
(*  - refs (useRef) are read and written live;                             *)
(*  - time is kept relative: for trialStartRef the model stores            *)
(*    Date.now() - trialStartRef.current (xxElapsed), for a timer the time *)
(*    left until it is due; Tick ages both;                                *)
(*  - an async handler suspended at an await, and a pending setTimeout     *)
(*    callback, is a continuation record in the bag ops holding the values *)
(*    its closure captured when the handler was invoked;                   *)
(*  - the server is not part of the repository: every reply is drawn from  *)
(*    the set of payload shapes the client code distinguishes.             *)
(***************************************************************************)
EXTENDS Bags, FiniteSets, Integers, Sequences, TLC

VARIABLES
    view,           \* which component is mounted: "ja", "generic", "memory"
    selectedChild,  \* useChild().selectedChild: id string or ""
    multiSelect,    \* GenericGame prop
    ja, jaR, jaElapsed,
    gg, ggR, ggElapsed, ggTimer,
    mm, mmR, mmElapsed, mmInterval,
    ops,            \* bag of suspended continuations
    nextSid, nextTid, \* ids the server hands out next
    sent,           \* history: the submit-trial calls for the trial the server issued last
    last,           \* history: outcome of the handler step taken last, "" when no property speaks of it
    sp,             \* SpeechTherapy hook state, with the history of its uploads and scores
    net,            \* api/client.js: token storage, refreshPromise, and the history of each call
    hub,            \* ChildProvider: the children list, what refreshChildren closed over, and
                    \* the history of the user's selection
    sc              \* SceneDescriptionGame hook state

vars == <<view, selectedChild, multiSelect, ja, jaR, jaElapsed,
          gg, ggR, ggElapsed, ggTimer,
          mm, mmR, mmElapsed, mmInterval,
          ops, nextSid, nextTid, sent, last, sp, net, hub, sc>>

jaVars == <<ja, jaR, jaElapsed>>
ggVars == <<gg, ggR, ggElapsed, ggTimer, multiSelect>>
mmVars == <<mm, mmR, mmElapsed, mmInterval>>
srvVars == <<nextSid, nextTid>>
pageVars == <<sp, net, hub, sc>>

-----------------------------------------------------------------------------
(* Bounds                                                                  *)

MaxSessions == 1      \* sessions the server creates in one run
MaxTrials == 2        \* trials the server issues in one run
MaxOps == 2           \* continuations suspended at the same time
MaxTicks == 2         \* clock ticks a trial's response time is followed for

TickMs == 1000        \* length of one clock tick, ms

-----------------------------------------------------------------------------
(* JavaScript values                                                       *)

Null == "null"                   \* null / undefined of a scalar
NullObj == [null |-> TRUE]       \* null / undefined of an object
NoTime == -1                     \* null of a numeric ref or state

Has(r, f) == f \in DOMAIN r

\* o?.f  for a scalar field
Get(r, f) == IF r # NullObj /\ Has(r, f) THEN r[f] ELSE Null
\* o?.f  for an object field
GetObj(r, f) == IF r # NullObj /\ Has(r, f) THEN r[f] ELSE NullObj
\* o?.f  for a numeric field; 0 stands for a missing number (falsy either way)
GetNum(r, f) == IF r # NullObj /\ Has(r, f) THEN r[f] ELSE 0
\* o?.f  for an array field
GetSeq(r, f) == IF r # NullObj /\ Has(r, f) THEN r[f] ELSE <<>>

TruthyStr(s) == s # Null /\ s # ""
TruthyObj(o) == o # NullObj

\* parseInt(childId, 10): the selection is "" or a decimal id string
ChildIds == {"7"}
parseInt(s) == IF s = "7" THEN 7 ELSE 0      \* 0 stands for NaN (both falsy)

-----------------------------------------------------------------------------
(* Text: String(detail).toLowerCase().includes("no more")                  *)

Upper == <<"A","B","C","D","E","F","G","H","I","J","K","L","M",
           "N","O","P","Q","R","S","T","U","V","W","X","Y","Z">>
Lower == <<"a","b","c","d","e","f","g","h","i","j","k","l","m",
           "n","o","p","q","r","s","t","u","v","w","x","y","z">>

toLowerCaseChar(c) ==
    IF \E i \in 1..26 : Upper[i] = c
    THEN Lower[CHOOSE i \in 1..26 : Upper[i] = c]
    ELSE c

toLowerCase(s) == [i \in 1..Len(s) |-> toLowerCaseChar(s[i])]

includes(s, sub) ==
    \E i \in 0..(Len(s) - Len(sub)) :
        \A j \in 1..Len(sub) : s[i + j] = sub[j]

NoMoreMarker == <<"n","o"," ","m","o","r","e">>

\* the detail texts the server sends
DetailNoMorePlanned ==
    <<"N","o"," ","m","o","r","e"," ","p","l","a","n","n","e","d"," ","t","r","i","a","l","s">>
DetailNoMoreUpper == <<"N","O"," ","M","O","R","E">>
DetailOther == <<"N","o","t"," ","f","o","u","n","d">>
DetailTexts == {DetailNoMorePlanned, DetailNoMoreUpper, DetailOther}

isNoMore(t) == t # NullObj /\ Has(t, "detail") /\ includes(toLowerCase(t.detail), NoMoreMarker)

-----------------------------------------------------------------------------
(* Server payloads (contract of the external REST API)                     *)

SidOf(n) == IF n = 1 THEN "s1" ELSE IF n = 2 THEN "s2" ELSE "s3"
TidOf(n) == IF n = 1 THEN "t1" ELSE IF n = 2 THEN "t2" ELSE "t3"

\* a summary; src tells which reply carried it
Summary(sid, src) == [session_id |-> sid, src |-> src]

OptStr(s) == [str |-> s]                      \* an option sent as a bare string
OptObj(i, l) == [id |-> i, label |-> l]       \* an option sent as an object

TrialTimeLimitMs == TickMs

\* the board of a memory_match trial: two pairs
BoardCards ==
    <<[id |-> 1, pair_id |-> "a"], [id |-> 2, pair_id |-> "b"],
      [id |-> 3, pair_id |-> "a"], [id |-> 4, pair_id |-> "b"]>>
BoardPairs == Cardinality({BoardCards[i].pair_id : i \in DOMAIN BoardCards})

\* a trial payload with every field, and one with the optional fields missing
FullTrial(tid) ==
    [trial_id |-> tid, prompt |-> "Find the cat", options |-> <<OptStr("cat"), OptObj("dog", "Dog")>>,
     highlight |-> "cat", level |-> 2, time_limit_ms |-> TrialTimeLimitMs,
     extra |-> [cards |-> BoardCards, num_pairs |-> BoardPairs]]
BareTrial(tid) == [trial_id |-> tid]
TrialPayloads(tid) == {FullTrial(tid), BareTrial(tid)}

\* "no further trials" payloads, with and without an inline summary
Sentinels(sid) ==
    {[detail |-> d] : d \in DetailTexts}
      \cup {[detail |-> d, summary |-> Summary(sid, "sentinel")] : d \in DetailTexts}


\* replies to POST start-session; sid and tid are the fresh ids, Null when the
\* server has none left to hand out
Thrown == [throws |-> TRUE]                   \* the transport call rejects

StartReplies(sid, tid) ==
    {Thrown}
      \cup (IF sid = Null THEN {} ELSE
            {[session |-> [session_id |-> sid]],
             [session |-> [session_id |-> sid], summary |-> Summary(sid, "start")]}
              \cup {[session |-> [session_id |-> sid], first_trial |-> s] : s \in Sentinels(sid)}
              \cup (IF tid = Null THEN {} ELSE
                    {[session |-> [session_id |-> sid], first_trial |-> p] : p \in TrialPayloads(tid)}
                      \cup {[session |-> [session_id |-> sid], first_trial |-> FullTrial(tid),
                             summary |-> Summary(sid, "start")],
                            [first_trial |-> FullTrial(tid)]}))

\* replies to POST next-trial
NextReplies(sid, tid) ==
    {Thrown} \cup Sentinels(sid)
      \cup (IF tid = Null THEN {} ELSE TrialPayloads(tid))

\* replies to POST submit-trial
SubmitReplies(sid) ==
    {Thrown,
     [success |-> TRUE, session_completed |-> FALSE],
     [success |-> TRUE, session_completed |-> TRUE],
     [success |-> TRUE, session_completed |-> TRUE, summary |-> Summary(sid, "submit")]}

\* replies to GET summary
SummaryReplies(sid) == {Thrown, Summary(sid, "fetch")}

FreshSid == IF nextSid <= MaxSessions THEN SidOf(nextSid) ELSE Null
FreshTid == IF nextTid <= MaxTrials THEN TidOf(nextTid) ELSE Null

\* the server's counters after it sent reply r
SidAfter(r) == IF Has(r, "session") THEN nextSid + 1 ELSE nextSid
TidAfter(r) ==
    IF Has(r, "trial_id") \/ (Has(r, "first_trial") /\ Has(r.first_trial, "trial_id"))
    THEN nextTid + 1 ELSE nextTid

-----------------------------------------------------------------------------
(* Continuations and history                                               *)

\* a pending timer is a record with the time left until it is due
Age(e) == IF e = NoTime THEN NoTime ELSE e + TickMs
AgeTimer(t) == IF t = NullObj THEN t ELSE [t EXCEPT !.remaining = @ - TickMs]
Due(t) == t # NullObj /\ t.remaining <= 0

Suspend(b, o) == b (+) SetToBag({o})
Resume(b, o) == b (-) SetToBag({o})
Pending == BagToSet(ops)
CanSuspend == BagCardinality(ops) < MaxOps

\* the trial the server issued last
LatestTid == IF nextTid > 1 THEN TidOf(nextTid - 1) ELSE Null

\* history of the submit-trial calls for LatestTid: the origins ("manual", "timeout")
\* a call was made with, and those a call was answered without error for
NoSubmits == [made |-> {}, accepted |-> {}]
Send(h, tid, origin) ==
    IF tid = LatestTid THEN [h EXCEPT !.made = @ \cup {origin}] ELSE h
Accept(h, tid, origin) ==
    IF tid = LatestTid THEN [h EXCEPT !.accepted = @ \cup {origin}] ELSE h
\* the history after the server sent reply r: a newly issued trial starts a new one
SentAfter(r) == IF Has(r, "trial_id") \/ (Has(r, "first_trial") /\ Has(r.first_trial, "trial_id"))
                THEN NoSubmits ELSE sent

\* submit-trial calls of the given origin for trial tid that are in flight
InFlight(tid, origin) ==
    LET S == {o \in Pending : o.pc = "submit" /\ o.trialId = tid /\ o.origin = origin}
        RECURSIVE Sum(_)
        Sum(T) == IF T = {} THEN 0
                  ELSE LET o == CHOOSE x \in T : TRUE IN CopiesIn(o, ops) + Sum(T \ {o})
    IN Sum(S)

\* submit-trial calls of the given origin for LatestTid that are in flight or were
\* answered without error (those answered counted once)
Submitted(origin) ==
    InFlight(LatestTid, origin) + (IF origin \in sent.accepted THEN 1 ELSE 0)

\* what the history variable last records of a reply
StartMarker(res) ==
    IF res = Thrown THEN "start.failed"
    ELSE IF Has(res, "summary") THEN "start.summary"
    ELSE IF isNoMore(GetObj(res, "first_trial")) THEN "sentinel"
    ELSE ""
NextMarker(t) == IF isNoMore(t) THEN "sentinel" ELSE ""
SubmitMarker(resp) ==
    IF resp = Thrown THEN "submit.failed"
    ELSE IF resp.session_completed THEN "submit.completed"
    ELSE ""

-----------------------------------------------------------------------------
(* JaGame                                                                  *)

MsgSelectChild == "Please select a child first."
MsgSidMissing == "Start failed: session_id missing."
\* `Error: ${e.message}` in JaGame, err.message in GenericGame and MemoryMatchGame
MsgError == "Error"
\* every other, informational, status line ("Starting session...", "Loading next
\* trial...", "Session completed. Summary below.", ...): no handler reads the text
MsgInfo == "info"

JaDefaultTimeLimitMs == 10000

JaInit ==
    [sessionId |-> Null, trialId |-> Null, trial |-> NullObj, statusText |-> "",
     submitting |-> FALSE, completed |-> FALSE, summary |-> NullObj]

\* what a render of JaGame closes over
JaSnapshot == ja @@ [childId |-> selectedChild]

canClick(r) == TruthyStr(r.trialId) /\ TruthyObj(r.trial) /\ ~r.submitting /\ ~r.completed

resetRunState(s) ==
    [s EXCEPT !.sessionId = Null, !.trialId = Null, !.trial = NullObj, !.statusText = "",
              !.submitting = FALSE, !.completed = FALSE, !.summary = NullObj]

normalizeTrialPayload(t) ==
    IF t = NullObj \/ Has(t, "detail") THEN t
    ELSE [trial_id |-> Get(t, "trial_id"),
          prompt |-> IF TruthyStr(Get(t, "prompt")) THEN t.prompt ELSE "",
          options |-> GetSeq(t, "options"),
          highlight |-> Get(t, "highlight"),
          level |-> IF GetNum(t, "level") # 0 THEN t.level ELSE 1,
          time_limit_ms |-> IF GetNum(t, "time_limit_ms") # 0 THEN t.time_limit_ms
                            ELSE JaDefaultTimeLimitMs,
          target |-> Get(t, "target"),
          tts_text |-> Get(t, "tts_text")]

\* the object handed to setTrial: the normalized payload without its trial_id
JaTrialOf(n) ==
    [prompt |-> n.prompt, options |-> n.options, highlight |-> n.highlight,
     level |-> n.level, time_limit_ms |-> n.time_limit_ms, target |-> n.target,
     tts_text |-> n.tts_text]

\* setCompleted(true); setTrial(null); setTrialId(null); setSummary(s); setStatusText(..)
JaComplete(s, sum) ==
    [s EXCEPT !.completed = TRUE, !.trial = NullObj, !.trialId = Null, !.summary = sum,
              !.statusText = MsgInfo]

\* React has committed the pending state: asynchronous work (replies, timers, the
\* clock) runs against a committed render; only user events can find a stale one
JaCommitted == jaR = JaSnapshot

JaRender ==
    /\ view = "ja"
    /\ jaR # JaSnapshot
    /\ jaR' = JaSnapshot
    /\ last' = ""
    /\ UNCHANGED <<view, selectedChild, ja, jaElapsed, ggVars, mmVars, ops, srvVars, sent,
                   pageVars>>


JaOther == <<view, selectedChild, jaR, ggVars, mmVars, pageVars>>

\* begin() up to its first await: `if (!cid) { ...; return; }` ends it before the
\* transport call; otherwise it is suspended at `await startSession(...)`
JaBeginOpsNoReturn(cid, b) ==
    Suspend(b, [k |-> "ja.begin", pc |-> "start", cid |-> cid])
JaBeginOps(cid, b) ==
    IF cid = 0 THEN b ELSE Suspend(b, [k |-> "ja.begin", pc |-> "start", cid |-> cid])

\* begin(): "Start Session" (disabled while submitting) or "Start New Session"
\* (rendered when completed)
JaBegin ==
    /\ view = "ja"
    /\ ~jaR.submitting \/ jaR.completed
    /\ LET cleared == [ja EXCEPT !.statusText = "", !.summary = NullObj,
                                 !.completed = FALSE, !.trial = NullObj, !.trialId = Null]
           cid == parseInt(jaR.childId)
       IN /\ cid # 0 => CanSuspend
          /\ ja' = [cleared EXCEPT !.statusText = IF cid = 0 THEN MsgSelectChild ELSE MsgInfo]
          /\ ops' = JaBeginOps(cid, ops)
          /\ last' = IF cid = 0 THEN "start.nochild" ELSE ""
    /\ UNCHANGED <<JaOther, jaElapsed, srvVars, sent>>

\* begin() resumed by the start-session reply
JaBeginReply ==
    /\ view = "ja"
    /\ JaCommitted
    /\ \E o \in Pending, res \in StartReplies(FreshSid, FreshTid) :
        /\ o.k = "ja.begin" /\ o.pc = "start"
        /\ nextSid' = SidAfter(res)
        /\ nextTid' = TidAfter(res)
        /\ sent' = SentAfter(res)
        /\ last' = StartMarker(res)
        /\ LET sid == IF Get(GetObj(res, "session"), "session_id") # Null
                      THEN res.session.session_id ELSE Get(res, "session_id")
               withSid == [ja EXCEPT !.sessionId = sid]
               ft == normalizeTrialPayload(GetObj(res, "first_trial"))
           IN IF res = Thrown
              THEN /\ ja' = [ja EXCEPT !.statusText = MsgError]
                   /\ ops' = Resume(ops, o)
                   /\ jaElapsed' = jaElapsed
              ELSE IF ~TruthyStr(sid)
              THEN /\ ja' = [ja EXCEPT !.statusText = MsgSidMissing]
                   /\ ops' = Resume(ops, o)
                   /\ jaElapsed' = jaElapsed
              ELSE IF TruthyObj(GetObj(res, "summary"))
              THEN /\ ja' = [withSid EXCEPT !.completed = TRUE, !.summary = res.summary,
                                            !.statusText = MsgInfo]
                   /\ ops' = Resume(ops, o)
                   /\ jaElapsed' = jaElapsed
              ELSE IF isNoMore(ft)
              THEN IF TruthyObj(GetObj(ft, "summary"))
                   THEN /\ ja' = [withSid EXCEPT !.completed = TRUE, !.summary = ft.summary,
                                                 !.statusText = MsgInfo]
                        /\ ops' = Resume(ops, o)
                        /\ jaElapsed' = jaElapsed
                   ELSE /\ ja' = withSid
                        /\ ops' = Suspend(Resume(ops, o),
                                          [k |-> "ja.begin", pc |-> "summary", sid |-> sid])
                        /\ jaElapsed' = jaElapsed
              ELSE IF ~TruthyStr(Get(ft, "trial_id"))
              THEN /\ ja' = [withSid EXCEPT !.statusText = MsgInfo]
                   /\ ops' = Resume(ops, o)
                   /\ jaElapsed' = jaElapsed
              ELSE /\ ja' = [withSid EXCEPT !.trialId = ft.trial_id, !.trial = JaTrialOf(ft),
                                            !.statusText = MsgInfo]
                   /\ ops' = Resume(ops, o)
                   /\ jaElapsed' = 0
    /\ UNCHANGED JaOther

\* begin() resumed by the reply to the summary fetch of a sentinel first trial
JaBeginSummaryReply ==
    /\ view = "ja"
    /\ JaCommitted
    /\ \E o \in Pending :
        /\ o.k = "ja.begin" /\ o.pc = "summary"
        /\ \E s \in SummaryReplies(o.sid) :
            /\ ops' = Resume(ops, o)
            /\ IF s = Thrown
               THEN /\ ja' = [ja EXCEPT !.statusText = MsgError]
                    /\ last' = "start.fetchfailed"
               ELSE /\ ja' = [ja EXCEPT !.completed = TRUE, !.summary = s,
                                        !.statusText = MsgInfo]
                    /\ last' = ""
    /\ UNCHANGED <<JaOther, jaElapsed, srvVars, sent>>

\* loadNext(sid = sessionId) entered with the closure env: the "Next Trial" button of
\* the committed render, or the 250 ms timer set by onPick
JaLoadNextEnter(env, b) ==
    IF ~TruthyStr(env.sessionId) \/ env.completed
    THEN /\ ja' = ja
         /\ ops' = b
         /\ last' = ""
    ELSE /\ ja' = [ja EXCEPT !.statusText = MsgInfo]
         /\ ops' = Suspend(b, [k |-> "ja.loadNext", pc |-> "next", sid |-> env.sessionId])
         /\ last' = ""

JaNextTrialButton ==
    /\ view = "ja"
    /\ TruthyStr(jaR.sessionId) /\ ~jaR.completed /\ ~jaR.submitting
    /\ CanSuspend
    /\ JaLoadNextEnter(jaR, ops)
    /\ UNCHANGED <<JaOther, jaElapsed, srvVars, sent>>

JaLoadNextTimer ==
    /\ view = "ja"
    /\ JaCommitted
    /\ \E o \in Pending :
        /\ o.k = "ja.onPick" /\ o.pc = "timer"
        /\ JaLoadNextEnter(o, Resume(ops, o))
    /\ UNCHANGED <<JaOther, jaElapsed, srvVars, sent>>

JaLoadNextReply ==
    /\ view = "ja"
    /\ JaCommitted
    /\ \E o \in Pending :
        /\ o.k = "ja.loadNext" /\ o.pc = "next"
        /\ \E t \in NextReplies(o.sid, FreshTid) :
            /\ nextTid' = TidAfter(t)
            /\ sent' = SentAfter(t)
            /\ last' = NextMarker(t)
            /\ LET nt == normalizeTrialPayload(t)
               IN IF t = Thrown
                  THEN /\ ja' = [ja EXCEPT !.statusText = MsgError]
                       /\ ops' = Resume(ops, o)
                       /\ jaElapsed' = jaElapsed
                  ELSE IF isNoMore(t)
                  THEN IF TruthyObj(GetObj(t, "summary"))
                       THEN /\ ja' = JaComplete(ja, t.summary)
                            /\ ops' = Resume(ops, o)
                            /\ jaElapsed' = jaElapsed
                       ELSE /\ ja' = ja
                            /\ ops' = Suspend(Resume(ops, o),
                                              [k |-> "ja.loadNext", pc |-> "summary", sid |-> o.sid])
                            /\ jaElapsed' = jaElapsed
                  ELSE IF ~TruthyStr(Get(nt, "trial_id"))
                  THEN /\ ja' = [ja EXCEPT !.statusText = MsgInfo]
                       /\ ops' = Resume(ops, o)
                       /\ jaElapsed' = jaElapsed
                  ELSE /\ ja' = [ja EXCEPT !.trialId = nt.trial_id, !.trial = JaTrialOf(nt),
                                           !.statusText = ""]
                       /\ ops' = Resume(ops, o)
                       /\ jaElapsed' = 0
    /\ UNCHANGED <<JaOther, nextSid>>

JaLoadNextSummaryReply ==
    /\ view = "ja"
    /\ JaCommitted
    /\ \E o \in Pending :
        /\ o.k = "ja.loadNext" /\ o.pc = "summary"
        /\ \E s \in SummaryReplies(o.sid) :
            /\ ops' = Resume(ops, o)
            /\ IF s = Thrown
               THEN /\ ja' = [ja EXCEPT !.statusText = MsgError]
                    /\ last' = ""
               ELSE /\ ja' = JaComplete(ja, s)
                    /\ last' = ""
    /\ UNCHANGED <<JaOther, jaElapsed, srvVars, sent>>


\* the id an option card hands to onPick: the string itself, or opt?.id
OptionId(opt) == IF Has(opt, "str") THEN opt.str ELSE Get(opt, "id")

Range(f) == {f[i] : i \in DOMAIN f}

\* onPick(opt): an OptionCard of the committed render is clicked
JaOnPick ==
    /\ view = "ja"
    /\ ~jaR.completed /\ canClick(jaR)
    /\ CanSuspend
    /\ \E opt \in Range(GetSeq(jaR.trial, "options")) :
        LET clicked == OptionId(opt)
            rt == IF jaElapsed # NoTime THEN jaElapsed ELSE 0
            limit == IF GetNum(jaR.trial, "time_limit_ms") # 0
                     THEN jaR.trial.time_limit_ms ELSE JaDefaultTimeLimitMs
        IN /\ TruthyStr(clicked)
           /\ ja' = [ja EXCEPT !.submitting = TRUE]
           /\ ops' = Suspend(ops, [k |-> "ja.onPick", pc |-> "submit", origin |-> "manual",
                                   trialId |-> jaR.trialId, clicked |-> clicked, rt |-> rt,
                                   timedOut |-> (rt > limit), limit |-> limit,
                                   sessionId |-> jaR.sessionId])
           /\ sent' = Send(sent, jaR.trialId, "manual")
           /\ last' = ""
    /\ UNCHANGED <<JaOther, jaElapsed, srvVars>>

\* onPick resumed by the submit-trial reply
JaOnPickReply ==
    /\ view = "ja"
    /\ JaCommitted
    /\ \E o \in Pending :
        /\ o.k = "ja.onPick" /\ o.pc = "submit"
        /\ \E resp \in SubmitReplies(o.sessionId) :
            IF resp = Thrown
            THEN /\ ja' = [ja EXCEPT !.statusText = MsgError, !.submitting = FALSE]
                 /\ ops' = Resume(ops, o)
                 /\ sent' = sent
                 /\ last' = SubmitMarker(resp)
            ELSE /\ last' = SubmitMarker(resp)
                 /\ sent' = Accept(sent, o.trialId, o.origin)
                 /\ IF resp.session_completed
                    THEN IF TruthyObj(GetObj(resp, "summary")) \/ ~TruthyStr(o.sessionId)
                         THEN /\ ja' = [JaComplete(ja, GetObj(resp, "summary")) EXCEPT
                                          !.submitting = FALSE]
                              /\ ops' = Resume(ops, o)
                         ELSE /\ ja' = ja
                              /\ ops' = Suspend(Resume(ops, o),
                                                [k |-> "ja.onPick", pc |-> "summary",
                                                 sid |-> o.sessionId])
                    ELSE /\ ja' = [ja EXCEPT !.statusText = MsgInfo, !.submitting = FALSE]
                         /\ ops' = Suspend(Resume(ops, o),
                                           [k |-> "ja.onPick", pc |-> "timer",
                                            sessionId |-> o.sessionId, completed |-> FALSE])
    /\ UNCHANGED <<JaOther, jaElapsed, srvVars>>

\* onPick resumed by the reply to the summary fetch of a completed session
JaOnPickSummaryReply ==
    /\ view = "ja"
    /\ JaCommitted
    /\ \E o \in Pending :
        /\ o.k = "ja.onPick" /\ o.pc = "summary"
        /\ \E s \in SummaryReplies(o.sid) :
            /\ ops' = Resume(ops, o)
            /\ IF s = Thrown
               THEN /\ ja' = [ja EXCEPT !.statusText = MsgError, !.submitting = FALSE]
                    /\ last' = ""
               ELSE /\ ja' = [JaComplete(ja, s) EXCEPT !.submitting = FALSE]
                    /\ last' = ""
    /\ UNCHANGED <<JaOther, jaElapsed, srvVars, sent>>

\* manualSummary() before its await: setCompleted(true); setTrial(null); setTrialId(null)
JaManualSummaryStateKeepTrial(s) == [s EXCEPT !.completed = TRUE]
JaManualSummaryState(s) == [s EXCEPT !.completed = TRUE, !.trial = NullObj, !.trialId = Null]

\* manualSummary(): the "Summary" button, disabled without a session
JaManualSummary ==
    /\ view = "ja"
    /\ TruthyStr(jaR.sessionId)
    /\ CanSuspend
    /\ ja' = JaManualSummaryState(ja)
    /\ ops' = Suspend(ops, [k |-> "ja.manualSummary", pc |-> "summary", sid |-> jaR.sessionId])
    /\ last' = "summary.requested"
    /\ UNCHANGED <<JaOther, jaElapsed, srvVars, sent>>

JaManualSummaryReply ==
    /\ view = "ja"
    /\ JaCommitted
    /\ \E o \in Pending :
        /\ o.k = "ja.manualSummary" /\ o.pc = "summary"
        /\ \E s \in SummaryReplies(o.sid) :
            /\ ops' = Resume(ops, o)
            /\ IF s = Thrown
               THEN /\ ja' = [ja EXCEPT !.statusText = MsgError]
                    /\ last' = ""
               ELSE /\ ja' = [ja EXCEPT !.summary = s, !.statusText = MsgInfo]
                    /\ last' = "summary.fetched"
    /\ UNCHANGED <<JaOther, jaElapsed, srvVars, sent>>

\* the "Reset" button
JaReset ==
    /\ view = "ja"
    /\ ja' = resetRunState(ja)
    /\ jaElapsed' = NoTime
    /\ last' = "reset"
    /\ UNCHANGED <<JaOther, ops, srvVars, sent>>

JaNext ==
    \/ JaRender
    \/ JaBegin
    \/ JaBeginReply
    \/ JaBeginSummaryReply
    \/ JaNextTrialButton
    \/ JaLoadNextTimer
    \/ JaLoadNextReply
    \/ JaLoadNextSummaryReply
    \/ JaOnPick
    \/ JaOnPickReply
    \/ JaOnPickSummaryReply
    \/ JaManualSummary
    \/ JaManualSummaryReply
    \/ JaReset

-----------------------------------------------------------------------------
(* GenericGame                                                             *)

ErrSelectChild == "Please select a child from the Games page first"

GgInit ==
    [sessionId |-> Null, trial |-> NullObj, summary |-> NullObj, status |-> "",
     loading |-> FALSE, error |-> "", selectedItems |-> <<>>, showFeedback |-> FALSE]

\* what a render of GenericGame closes over
GgSnapshot == gg @@ [selectedChild |-> selectedChild]

\* one option coerced to {id, label}, each falling back to the other
normalizeOption(o) ==
    IF Has(o, "str") THEN [id |-> o.str, label |-> o.str]
    ELSE [id |-> IF TruthyStr(Get(o, "id")) THEN o.id ELSE Get(o, "label"),
          label |-> IF TruthyStr(Get(o, "label")) THEN o.label ELSE Get(o, "id")]

\* normalizeTrial(raw): {...raw, options: opts}
normalizeTrial(raw) ==
    IF raw = NullObj \/ Has(raw, "detail") THEN raw
    ELSE LET opts == GetSeq(raw, "options")
         IN [f \in (DOMAIN raw) \cup {"options"} |->
               IF f = "options" THEN [i \in 1..Len(opts) |-> normalizeOption(opts[i])]
               ELSE raw[f]]

\* Array.from(selectedItems).join(","): the ids in insertion order, separated by ","
joinNoSeparator(ids) == ids
RECURSIVE join(_)
join(ids) ==
    IF ids = <<>> THEN <<>>
    ELSE IF Len(ids) = 1 THEN <<ids[1]>>
    ELSE <<ids[1], ",">> \o join(Tail(ids))

\* the timer effect arms a timer for a trial with a time limit and an id
GgArmable(t) == GetNum(t, "time_limit_ms") # 0 /\ TruthyStr(Get(t, "trial_id"))

\* commit; the [trial] effect: the cleanup clears the running timer, then a new one
\* is set whose callback is handleSubmit(null, true) of this render
GgRender ==
    /\ view = "generic"
    /\ ggR # GgSnapshot
    /\ ggR' = GgSnapshot
    /\ ggTimer' = IF ggR.trial = gg.trial THEN ggTimer
                  ELSE IF GgArmable(gg.trial)
                  THEN [remaining |-> gg.trial.time_limit_ms, trial |-> gg.trial,
                        sessionId |-> gg.sessionId]
                  ELSE NullObj
    /\ last' = ""
    /\ UNCHANGED <<view, selectedChild, multiSelect, gg, ggElapsed, jaVars, mmVars, ops,
                   srvVars, sent, pageVars>>

GgOther == <<view, selectedChild, multiSelect, ggR, jaVars, mmVars, pageVars>>

\* handleStart(): the start panel is rendered without a session; its button is
\* disabled while loading or without a selected child
GgHandleStart ==
    /\ view = "generic"
    /\ ~TruthyStr(ggR.sessionId) /\ ~ggR.loading /\ TruthyStr(ggR.selectedChild)
    /\ IF ~TruthyStr(ggR.selectedChild)
       THEN /\ gg' = [gg EXCEPT !.error = ErrSelectChild]
            /\ ops' = ops
            /\ last' = "start.nochild"
       ELSE /\ CanSuspend
            /\ gg' = [gg EXCEPT !.error = "", !.loading = TRUE, !.summary = NullObj,
                                !.selectedItems = <<>>]
            /\ ops' = Suspend(ops, [k |-> "gg.start", pc |-> "start",
                                    cid |-> parseInt(ggR.selectedChild)])
            /\ last' = ""
    /\ UNCHANGED <<GgOther, ggElapsed, ggTimer, srvVars, sent>>

GgHandleStartReply ==
    /\ view = "generic"
    /\ ggR = GgSnapshot
    /\ \E o \in Pending, res \in StartReplies(FreshSid, FreshTid) :
        /\ o.k = "gg.start" /\ o.pc = "start"
        /\ ops' = Resume(ops, o)
        /\ nextSid' = SidAfter(res)
        /\ nextTid' = TidAfter(res)
        /\ sent' = SentAfter(res)
        /\ last' = StartMarker(res)
        /\ LET ft == GetObj(res, "first_trial")
               withSid == [gg EXCEPT !.sessionId = Get(GetObj(res, "session"), "session_id"),
                                     !.loading = FALSE]
           IN IF res = Thrown
              THEN /\ gg' = [gg EXCEPT !.error = MsgError, !.loading = FALSE]
                   /\ ggElapsed' = ggElapsed
              ELSE IF TruthyObj(ft) /\ ~Has(ft, "detail")
              THEN /\ gg' = [withSid EXCEPT !.trial = normalizeTrial(ft), !.status = MsgInfo]
                   /\ ggElapsed' = 0
              ELSE IF TruthyObj(GetObj(res, "summary"))
              THEN /\ gg' = [withSid EXCEPT !.summary = res.summary, !.status = MsgInfo]
                   /\ ggElapsed' = ggElapsed
              ELSE /\ gg' = withSid
                   /\ ggElapsed' = ggElapsed
    /\ UNCHANGED <<GgOther, ggTimer>>

\* handleSubmit(clickedValue, timedOut) entered with the closure env (its trial,
\* selectedItems and sessionId); b is the bag the continuation is added to
GgHandleSubmit(env, clickedValue, timedOut, b) ==
    LET clicked == IF multiSelect /\ ~timedOut THEN join(env.selectedItems) ELSE clickedValue
        elapsed == IF ggElapsed # NoTime THEN ggElapsed ELSE 0
    IN IF ~TruthyStr(Get(env.trial, "trial_id"))
       THEN /\ gg' = gg
            /\ ggTimer' = ggTimer
            /\ ops' = b
            /\ sent' = sent
       ELSE /\ ggTimer' = NullObj
            /\ IF clicked = <<>> /\ ~timedOut
               THEN /\ gg' = gg
                    /\ ops' = b
                    /\ sent' = sent
               ELSE /\ gg' = [gg EXCEPT !.loading = TRUE, !.showFeedback = FALSE]
                    /\ sent' = Send(sent, env.trial.trial_id,
                                    IF timedOut THEN "timeout" ELSE "manual")
                    /\ ops' = Suspend(b, [k |-> "gg.submit", pc |-> "submit",
                                          origin |-> IF timedOut THEN "timeout" ELSE "manual",
                                          trialId |-> env.trial.trial_id, clicked |-> clicked,
                                          rt |-> elapsed, timedOut |-> timedOut,
                                          limit |-> GetNum(env.trial, "time_limit_ms"),
                                          sessionId |-> env.sessionId])

\* a click on an option card of the committed render
GgOptionClick ==
    /\ view = "generic"
    /\ TruthyObj(ggR.trial) /\ ~ggR.showFeedback
    /\ ~ggR.loading
    /\ \E opt \in Range(GetSeq(ggR.trial, "options")) :
        IF multiSelect
        THEN \* toggleItem(id): setSelectedItems(prev => ...) works on the pending state
             /\ ggR = GgSnapshot
             /\ gg' = [gg EXCEPT !.selectedItems =
                          IF opt.id \in Range(@) THEN SelectSeq(@, LAMBDA x : x # opt.id)
                          ELSE Append(@, opt.id)]
             /\ UNCHANGED <<ggTimer, ops, sent>>
        ELSE /\ CanSuspend
             /\ GgHandleSubmit(ggR, IF TruthyStr(opt.id) THEN <<opt.id>> ELSE <<>>, FALSE, ops)
    /\ last' = ""
    /\ UNCHANGED <<GgOther, ggElapsed, srvVars>>

\* the multi-select submit button, disabled while loading or with nothing selected
GgMultiSubmit ==
    /\ view = "generic"
    /\ multiSelect
    /\ TruthyObj(ggR.trial) /\ ~ggR.showFeedback
    /\ ~ggR.loading /\ ggR.selectedItems # <<>>
    /\ CanSuspend
    /\ GgHandleSubmit(ggR, <<>>, FALSE, ops)
    /\ last' = ""
    /\ UNCHANGED <<GgOther, ggElapsed, srvVars>>

\* the time-limit timer is due: handleSubmit(null, true) of the render that set it
GgTimeout ==
    /\ view = "generic"
    /\ ggR = GgSnapshot
    /\ Due(ggTimer)
    /\ CanSuspend
    /\ GgHandleSubmit(ggTimer, <<>>, TRUE, ops)
    /\ last' = ""
    /\ UNCHANGED <<GgOther, ggElapsed, srvVars>>

\* handleSubmit resumed by the submit-trial reply; sets the 1500 ms feedback timer
GgSubmitReply ==
    /\ view = "generic"
    /\ ggR = GgSnapshot
    /\ \E o \in Pending :
        /\ o.k = "gg.submit" /\ o.pc = "submit"
        /\ \E res \in SubmitReplies(o.sessionId) :
            IF res = Thrown
            THEN /\ gg' = [gg EXCEPT !.error = MsgError, !.loading = FALSE]
                 /\ ops' = Resume(ops, o)
                 /\ sent' = sent
                 /\ last' = SubmitMarker(res)
            ELSE /\ gg' = [gg EXCEPT !.showFeedback = TRUE]
                 /\ sent' = Accept(sent, o.trialId, o.origin)
                 /\ ops' = Suspend(Resume(ops, o),
                                   [k |-> "gg.submit", pc |-> "feedback", res |-> res,
                                    sessionId |-> o.sessionId])
                 /\ last' = ""
    /\ UNCHANGED <<GgOther, ggElapsed, ggTimer, srvVars>>

\* the feedback timer fires: complete, or fetch the next trial
GgFeedbackDone ==
    /\ view = "generic"
    /\ ggR = GgSnapshot
    /\ \E o \in Pending :
        /\ o.k = "gg.submit" /\ o.pc = "feedback"
        /\ LET shown == [gg EXCEPT !.showFeedback = FALSE, !.selectedItems = <<>>]
           IN IF o.res.session_completed /\ TruthyObj(GetObj(o.res, "summary"))
              THEN /\ gg' = [shown EXCEPT !.summary = o.res.summary, !.trial = NullObj,
                                          !.status = MsgInfo, !.loading = FALSE]
                   /\ ops' = Resume(ops, o)
              ELSE IF TruthyStr(o.sessionId)
              THEN /\ gg' = shown
                   /\ ops' = Suspend(Resume(ops, o),
                                     [k |-> "gg.submit", pc |-> "next", res |-> o.res,
                                      sid |-> o.sessionId])
              ELSE /\ gg' = [shown EXCEPT !.loading = FALSE]
                   /\ ops' = Resume(ops, o)
        /\ last' = SubmitMarker(o.res)
    /\ UNCHANGED <<GgOther, ggElapsed, ggTimer, srvVars, sent>>

GgNextReply ==
    /\ view = "generic"
    /\ ggR = GgSnapshot
    /\ \E o \in Pending :
        /\ o.k = "gg.submit" /\ o.pc = "next"
        /\ \E next \in NextReplies(o.sid, FreshTid) :
            /\ ops' = Resume(ops, o)
            /\ nextTid' = TidAfter(next)
            /\ sent' = SentAfter(next)
            /\ last' = IF next # Thrown /\ ~Has(next, "detail") THEN "next.trial"
                       ELSE NextMarker(next)
            /\ IF next = Thrown
               THEN /\ gg' = [gg EXCEPT !.error = MsgError, !.trial = NullObj, !.loading = FALSE]
                    /\ ggElapsed' = ggElapsed
               ELSE IF Has(next, "detail")
               THEN /\ gg' = [gg EXCEPT !.summary = IF TruthyObj(GetObj(next, "summary"))
                                                    THEN next.summary ELSE @,
                                        !.trial = NullObj, !.status = MsgInfo,
                                        !.loading = FALSE]
                    /\ ggElapsed' = ggElapsed
               ELSE /\ gg' = [gg EXCEPT !.trial = normalizeTrial(next), !.status = MsgInfo,
                                        !.loading = FALSE]
                    /\ ggElapsed' = 0
    /\ UNCHANGED <<GgOther, ggTimer, nextSid>>

\* handleReset(): the "Reset" button, rendered with a session; awaits endSession first
GgHandleReset ==
    /\ view = "generic"
    /\ TruthyStr(ggR.sessionId)
    /\ CanSuspend
    /\ ops' = Suspend(ops, [k |-> "gg.reset", pc |-> "end", sid |-> ggR.sessionId])
    /\ last' = ""
    /\ UNCHANGED <<GgOther, gg, ggElapsed, ggTimer, srvVars, sent>>

\* handleReset resumed by the end-session reply (a failure is swallowed)
GgHandleResetReply ==
    /\ view = "generic"
    /\ ggR = GgSnapshot
    /\ \E o \in Pending :
        /\ o.k = "gg.reset" /\ o.pc = "end"
        /\ ops' = Resume(ops, o)
    /\ gg' = [gg EXCEPT !.sessionId = Null, !.trial = NullObj, !.summary = NullObj,
                        !.status = "", !.error = "", !.selectedItems = <<>>,
                        !.showFeedback = FALSE]
    /\ last' = "reset"
    /\ UNCHANGED <<GgOther, ggElapsed, ggTimer, srvVars, sent>>

GgNext ==
    \/ GgRender
    \/ GgHandleStart
    \/ GgHandleStartReply
    \/ GgOptionClick
    \/ GgMultiSubmit
    \/ GgTimeout
    \/ GgSubmitReply
    \/ GgFeedbackDone
    \/ GgNextReply
    \/ GgHandleReset
    \/ GgHandleResetReply

-----------------------------------------------------------------------------
(* MemoryMatchGame                                                         *)
(* status, gridCols and voiceEnabled are display-only and left out;        *)
(* trialRef.current is set by an effect of every commit whose trial        *)
(* changed, so it always equals the trial of the committed render.         *)

MaxMoves == 3         \* pairs of cards the player turns over on one board

MmDefaultPairs == 4
MmMsPerPair == 15000
MmIntervalMs == 1000

MmInit ==
    [sessionId |-> Null, trial |-> NullObj, summary |-> NullObj, loading |-> FALSE,
     error |-> "", cards |-> <<>>, flippedIds |-> <<>>, matchedPairs |-> {}, moves |-> 0,
     numPairs |-> 0, lockBoard |-> FALSE, timeLeft |-> NoTime]

\* what a render of MemoryMatchGamePage closes over
MmSnapshot == mm @@ [selectedChild |-> selectedChild]

trialRef == mmR.trial

\* Math.ceil(ms / 1000)
CeilSeconds(ms) == (ms + 999) \div 1000

\* setupBoard(trialData), applied to the pending state s
setupBoard(s, trialData) ==
    LET extra == GetObj(trialData, "extra")
        pairs == IF GetNum(extra, "num_pairs") # 0 THEN extra.num_pairs ELSE MmDefaultPairs
        timeLimitMs == IF GetNum(trialData, "time_limit_ms") # 0 THEN trialData.time_limit_ms
                       ELSE pairs * MmMsPerPair
    IN [s EXCEPT !.trial = trialData, !.cards = GetSeq(extra, "cards"), !.numPairs = pairs,
                 !.flippedIds = <<>>, !.matchedPairs = {}, !.moves = 0, !.lockBoard = FALSE,
                 !.timeLeft = CeilSeconds(timeLimitMs)]

\* `pairs:${matchedPairs.size},moves:${moves},total:${numPairs}` of the closure env
submitValue(env) ==
    [pairs |-> Cardinality(env.matchedPairs), moves |-> env.moves, total |-> env.numPairs]

\* the all-pairs effect's condition
AllPairsFoundAfterFirst(s) ==
    s.numPairs > 0 /\ Cardinality(s.matchedPairs) >= 1 /\ TruthyObj(s.trial)
AllPairsFound(s) ==
    s.numPairs > 0 /\ Cardinality(s.matchedPairs) = s.numPairs /\ TruthyObj(s.trial)

\* handleBoardComplete / handleTimedOut up to the submit-trial call, entered with the
\* closure env while the committed trial is t; s is the pending state, b the bag
MmSubmitState(s, timedOut) ==
    IF timedOut THEN [s EXCEPT !.lockBoard = TRUE, !.loading = TRUE]
    ELSE [s EXCEPT !.lockBoard = TRUE, !.timeLeft = NoTime, !.loading = TRUE]
MmSubmitOp(env, t, timedOut) ==
    [k |-> IF timedOut THEN "mm.timedOut" ELSE "mm.boardComplete", pc |-> "submit",
     origin |-> IF timedOut THEN "timeout" ELSE "manual",
     trialId |-> t.trial_id, clicked |-> submitValue(env),
     rt |-> IF mmElapsed # NoTime THEN mmElapsed ELSE 0,
     timedOut |-> timedOut,
     limit |-> IF GetNum(t, "time_limit_ms") # 0 THEN t.time_limit_ms
               ELSE env.numPairs * MmMsPerPair,
     sessionId |-> env.sessionId]

\* commit; then the effects whose dependencies changed, in order: trialRef, the
\* countdown (cleanup clears the interval, a positive timeLeft sets a new one whose
\* callback closes over this render), the all-pairs check
MmRender ==
    /\ view = "memory"
    /\ mmR # MmSnapshot
    /\ mmR' = MmSnapshot
    /\ mmInterval' = IF mmR.timeLeft = mm.timeLeft THEN mmInterval
                     ELSE IF mm.timeLeft = NoTime \/ mm.timeLeft <= 0 THEN NullObj
                     ELSE [remaining |-> MmIntervalMs,
                           env |-> [matchedPairs |-> mm.matchedPairs, moves |-> mm.moves,
                                    numPairs |-> mm.numPairs, sessionId |-> mm.sessionId]]
    /\ IF /\ <<mmR.matchedPairs, mmR.numPairs, mmR.trial>> # <<mm.matchedPairs, mm.numPairs, mm.trial>>
          /\ AllPairsFound(mm)
          /\ TruthyStr(Get(mm.trial, "trial_id"))
       THEN /\ CanSuspend
            /\ mm' = MmSubmitState(mm, FALSE)
            /\ ops' = Suspend(ops, MmSubmitOp(mm, mm.trial, FALSE))
            /\ sent' = Send(sent, mm.trial.trial_id, "manual")
       ELSE UNCHANGED <<mm, ops, sent>>
    /\ last' = ""
    /\ UNCHANGED <<view, selectedChild, mmElapsed, jaVars, ggVars, srvVars, pageVars>>

MmOther == <<view, selectedChild, mmR, jaVars, ggVars, pageVars>>

\* handleStart(): the start panel is rendered without a trial while not loading
MmHandleStart ==
    /\ view = "memory"
    /\ ~TruthyObj(mmR.trial) /\ ~mmR.loading /\ ~TruthyObj(mmR.summary)
    /\ IF ~TruthyStr(mmR.selectedChild)
       THEN /\ mm' = [mm EXCEPT !.error = ErrSelectChild]
            /\ ops' = ops
            /\ last' = "start.nochild"
       ELSE /\ CanSuspend
            /\ mm' = [mm EXCEPT !.error = "", !.loading = TRUE, !.summary = NullObj]
            /\ ops' = Suspend(ops, [k |-> "mm.start", pc |-> "start",
                                    cid |-> parseInt(mmR.selectedChild)])
            /\ last' = ""
    /\ UNCHANGED <<MmOther, mmElapsed, mmInterval, srvVars, sent>>

MmHandleStartReply ==
    /\ view = "memory"
    /\ mmR = MmSnapshot
    /\ \E o \in Pending, res \in StartReplies(FreshSid, FreshTid) :
        /\ o.k = "mm.start" /\ o.pc = "start"
        /\ ops' = Resume(ops, o)
        /\ nextSid' = SidAfter(res)
        /\ nextTid' = TidAfter(res)
        /\ sent' = SentAfter(res)
        /\ last' = StartMarker(res)
        /\ LET ft == GetObj(res, "first_trial")
               withSid == [mm EXCEPT !.sessionId = Get(GetObj(res, "session"), "session_id"),
                                     !.loading = FALSE]
           IN IF res = Thrown
              THEN /\ mm' = [mm EXCEPT !.error = MsgError, !.loading = FALSE]
                   /\ mmElapsed' = mmElapsed
              ELSE IF TruthyObj(ft) /\ ~Has(ft, "detail")
              THEN /\ mm' = setupBoard(withSid, ft)
                   /\ mmElapsed' = 0
              ELSE IF TruthyObj(GetObj(res, "summary"))
              THEN /\ mm' = [withSid EXCEPT !.summary = res.summary]
                   /\ mmElapsed' = mmElapsed
              ELSE /\ mm' = withSid
                   /\ mmElapsed' = mmElapsed
    /\ UNCHANGED <<MmOther, mmInterval>>

CardOf(cs, id) == cs[CHOOSE i \in DOMAIN cs : cs[i].id = id]

\* a <Card> of the committed render is clicked: the card's own guard, then
\* handleCardClick(card.id)
MmHandleCardClick ==
    /\ view = "memory"
    /\ TruthyObj(mmR.trial) /\ mmR.cards # <<>> /\ ~TruthyObj(mmR.summary)
    /\ ~(mmR.lockBoard \/ mmR.loading)
    /\ Len(mmR.flippedIds) < 2
    /\ \E card \in Range(mmR.cards) :
        /\ card.id \notin Range(mmR.flippedIds)
        /\ card.pair_id \notin mmR.matchedPairs
        /\ LET newFlipped == Append(mmR.flippedIds, card.id)
               card1 == CardOf(mmR.cards, newFlipped[1])
           IN IF Len(newFlipped) = 2
              THEN /\ mm.moves < MaxMoves
                   /\ CanSuspend
                   /\ mm' = [mm EXCEPT !.flippedIds = newFlipped, !.moves = @ + 1,
                                       !.lockBoard = TRUE]
                   /\ ops' = Suspend(ops,
                                IF card1.pair_id = card.pair_id
                                THEN [k |-> "mm.flip", pc |-> "match", pair_id |-> card1.pair_id]
                                ELSE [k |-> "mm.flip", pc |-> "back"])
              ELSE /\ mm' = [mm EXCEPT !.flippedIds = newFlipped]
                   /\ ops' = ops
    /\ last' = "flip"
    /\ UNCHANGED <<MmOther, mmElapsed, mmInterval, srvVars, sent>>

\* the 600 ms timer of a matching pair
MmMatchTimer ==
    /\ view = "memory"
    /\ mmR = MmSnapshot
    /\ \E o \in Pending :
        /\ o.k = "mm.flip" /\ o.pc = "match"
        /\ ops' = Resume(ops, o)
        /\ mm' = [mm EXCEPT !.matchedPairs = @ \cup {o.pair_id}, !.flippedIds = <<>>,
                            !.lockBoard = FALSE]
    /\ last' = ""
    /\ UNCHANGED <<MmOther, mmElapsed, mmInterval, srvVars, sent>>

\* the 1000 ms timer that turns a non-matching pair back
MmFlipBackTimer ==
    /\ view = "memory"
    /\ mmR = MmSnapshot
    /\ \E o \in Pending :
        /\ o.k = "mm.flip" /\ o.pc = "back"
        /\ ops' = Resume(ops, o)
        /\ mm' = [mm EXCEPT !.flippedIds = <<>>, !.lockBoard = FALSE]
    /\ last' = ""
    /\ UNCHANGED <<MmOther, mmElapsed, mmInterval, srvVars, sent>>

\* the countdown interval is due: setTimeLeft(prev => ...); at prev <= 1 it clears
\* itself and calls handleTimedOut() of the render that set it
MmCountdown ==
    /\ view = "memory"
    /\ mmR = MmSnapshot
    /\ Due(mmInterval)
    /\ IF mm.timeLeft <= 1
       THEN /\ mmInterval' = NullObj
            /\ IF TruthyStr(Get(trialRef, "trial_id"))
               THEN /\ CanSuspend
                    /\ mm' = [MmSubmitState(mm, TRUE) EXCEPT !.timeLeft = 0]
                    /\ ops' = Suspend(ops, MmSubmitOp(mmInterval.env, trialRef, TRUE))
                    /\ sent' = Send(sent, trialRef.trial_id, "timeout")
               ELSE /\ mm' = [mm EXCEPT !.timeLeft = 0]
                    /\ UNCHANGED <<ops, sent>>
       ELSE /\ mmInterval' = [mmInterval EXCEPT !.remaining = MmIntervalMs]
            /\ mm' = [mm EXCEPT !.timeLeft = @ - 1]
            /\ UNCHANGED <<ops, sent>>
    /\ last' = IF mm.timeLeft <= 1 /\ TruthyStr(Get(trialRef, "trial_id"))
               THEN "timedOut" ELSE ""
    /\ UNCHANGED <<MmOther, mmElapsed, srvVars>>

\* handleBoardComplete / handleTimedOut resumed by the submit-trial reply; a reply
\* sets the 2000 ms / 2500 ms timer
MmSubmitReply ==
    /\ view = "memory"
    /\ mmR = MmSnapshot
    /\ \E o \in Pending :
        /\ o.k \in {"mm.boardComplete", "mm.timedOut"} /\ o.pc = "submit"
        /\ \E res \in SubmitReplies(o.sessionId) :
            /\ last' = IF res = Thrown THEN SubmitMarker(res) ELSE ""
            /\ IF res = Thrown
               THEN /\ mm' = [mm EXCEPT !.error = MsgError, !.loading = FALSE]
                    /\ ops' = Resume(ops, o)
                    /\ sent' = sent
               ELSE /\ mm' = mm
                    /\ sent' = Accept(sent, o.trialId, o.origin)
                    /\ ops' = Suspend(Resume(ops, o),
                                      [k |-> o.k, pc |-> "feedback", res |-> res,
                                       sessionId |-> o.sessionId])
    /\ UNCHANGED <<MmOther, mmElapsed, mmInterval, srvVars>>

\* that timer fires: complete, or fetch the next trial
MmFeedbackDone ==
    /\ view = "memory"
    /\ mmR = MmSnapshot
    /\ \E o \in Pending :
        /\ o.k \in {"mm.boardComplete", "mm.timedOut"} /\ o.pc = "feedback"
        /\ last' = SubmitMarker(o.res)
        /\ IF o.res.session_completed /\ TruthyObj(GetObj(o.res, "summary"))
           THEN /\ mm' = [mm EXCEPT !.summary = o.res.summary, !.trial = NullObj,
                                    !.cards = <<>>, !.loading = FALSE]
                /\ ops' = Resume(ops, o)
           ELSE IF TruthyStr(o.sessionId)
           THEN /\ mm' = mm
                /\ ops' = Suspend(Resume(ops, o),
                                  [k |-> o.k, pc |-> "next", res |-> o.res, sid |-> o.sessionId])
           ELSE /\ mm' = [mm EXCEPT !.loading = FALSE]
                /\ ops' = Resume(ops, o)
    /\ UNCHANGED <<MmOther, mmElapsed, mmInterval, srvVars, sent>>

\* resumed by the next-trial reply; handleTimedOut swallows a failure
MmNextReply ==
    /\ view = "memory"
    /\ mmR = MmSnapshot
    /\ \E o \in Pending :
        /\ o.k \in {"mm.boardComplete", "mm.timedOut"} /\ o.pc = "next"
        /\ \E next \in NextReplies(o.sid, FreshTid) :
            /\ ops' = Resume(ops, o)
            /\ nextTid' = TidAfter(next)
            /\ sent' = SentAfter(next)
            /\ last' = NextMarker(next)
            /\ IF next = Thrown
               THEN /\ mm' = [mm EXCEPT !.error = IF o.k = "mm.timedOut" THEN @ ELSE MsgError,
                                        !.loading = FALSE]
                    /\ mmElapsed' = mmElapsed
               ELSE IF Has(next, "detail")
               THEN /\ mm' = [mm EXCEPT !.summary = IF TruthyObj(GetObj(next, "summary"))
                                                    THEN next.summary ELSE @,
                                        !.trial = NullObj, !.cards = <<>>, !.loading = FALSE]
                    /\ mmElapsed' = mmElapsed
               ELSE /\ mm' = [setupBoard(mm, next) EXCEPT !.loading = FALSE]
                    /\ mmElapsed' = 0
    /\ UNCHANGED <<MmOther, mmInterval, nextSid>>

\* handleReset(): "Quit" (rendered with a trial) or "Play Again" (with a summary)
MmHandleReset ==
    /\ view = "memory"
    /\ TruthyObj(mmR.trial) \/ TruthyObj(mmR.summary)
    /\ mm' = [mm EXCEPT !.sessionId = Null, !.trial = NullObj, !.summary = NullObj,
                        !.cards = <<>>, !.flippedIds = <<>>, !.matchedPairs = {},
                        !.moves = 0, !.timeLeft = NoTime, !.error = "", !.lockBoard = FALSE]
    /\ last' = "reset"
    /\ UNCHANGED <<MmOther, mmElapsed, mmInterval, ops, srvVars, sent>>

MmNext ==
    \/ MmRender
    \/ MmHandleStart
    \/ MmHandleStartReply
    \/ MmHandleCardClick
    \/ MmMatchTimer
    \/ MmFlipBackTimer
    \/ MmCountdown
    \/ MmSubmitReply
    \/ MmFeedbackDone
    \/ MmNextReply
    \/ MmHandleReset

-----------------------------------------------------------------------------
(* SpeechTherapy (frontend/src/pages/games/MatchingGame.jsx)               *)
(* Audio capture: record, upload, poll the analysis, score.  Handlers run  *)
(* on the committed state; what an async handler closed over when it was   *)
(* invoked (currentTrial, currentTrialIndex, session) is kept in its       *)
(* continuation.  activities, selectedActivity, audioUrl, analysis,        *)
(* analysisPolling and recordingTime are display-only and left out.        *)

MaxPageOps == 3       \* continuations of one page suspended at the same time

PageCanSuspend == BagCardinality(ops) < MaxPageOps

\* the trials of a speech session, as the start reply lists them
SpTrials == <<"t1", "t2">>

MaxPolls == 31        \* times the poll interval of one upload is followed

\* const maxAttempts = 30
SpMaxAttempts == 30

\* attempts: the counter `attempts` of the poll closure made by the upload for a trial.
\* uploaded, scored: history of the trials whose upload completed and whose score
\* call was answered without error
SpInit ==
    [session |-> NullObj, idx |-> 0, phase |-> "setup", audio |-> FALSE, loading |-> FALSE,
     summary |-> NullObj, error |-> "", attempts |-> [t \in Range(SpTrials) |-> 0],
     uploaded |-> {}, scored |-> {}]

\* session?.trials?.[currentTrialIndex]
currentTrial(s) ==
    IF s.session # NullObj /\ s.idx < Len(s.session.trials)
    THEN s.session.trials[s.idx + 1] ELSE Null

SpOther == <<view, selectedChild, multiSelect, jaVars, ggVars, mmVars, sent, nextTid, net, hub, sc>>

\* handleStartSession(): the button is disabled while loading or without a child
SpHandleStartSession ==
    /\ view = "speech"
    /\ sp.phase = "setup" /\ ~sp.loading /\ TruthyStr(selectedChild)
    /\ PageCanSuspend
    /\ sp' = [sp EXCEPT !.error = "", !.loading = TRUE]
    /\ ops' = Suspend(ops, [k |-> "sp.start", pc |-> "start"])
    /\ last' = ""
    /\ UNCHANGED <<SpOther, nextSid>>

SpStartSessionReply ==
    /\ view = "speech"
    /\ \E o \in Pending :
        /\ o.k = "sp.start"
        /\ ops' = Resume(ops, o)
        /\ \E ok \in (IF FreshSid = Null THEN {FALSE} ELSE BOOLEAN) :
            IF ok
            THEN /\ sp' = [sp EXCEPT !.session = [session_id |-> FreshSid, trials |-> SpTrials],
                                     !.idx = 0, !.phase = "active", !.loading = FALSE]
                 /\ nextSid' = nextSid + 1
            ELSE /\ sp' = [sp EXCEPT !.error = MsgError, !.loading = FALSE]
                 /\ nextSid' = nextSid
    /\ last' = ""
    /\ UNCHANGED SpOther

\* handleStartRecording(): the microphone is granted (phase "recording") or denied
SpHandleStartRecording ==
    /\ view = "speech"
    /\ sp.phase = "active" /\ sp.session # NullObj /\ currentTrial(sp) # Null
    /\ \E granted \in BOOLEAN :
        sp' = IF granted THEN [sp EXCEPT !.error = "", !.audio = FALSE, !.phase = "recording"]
              ELSE [sp EXCEPT !.error = MsgError, !.audio = FALSE]
    /\ last' = ""
    /\ UNCHANGED <<SpOther, ops, nextSid>>

\* handleStopRecording(), and the recorder's onstop: the blob is kept, phase "processing"
SpHandleStopRecording ==
    /\ view = "speech"
    /\ sp.phase = "recording" /\ sp.session # NullObj /\ currentTrial(sp) # Null
    /\ sp' = [sp EXCEPT !.audio = TRUE, !.phase = "processing"]
    /\ last' = ""
    /\ UNCHANGED <<SpOther, ops, nextSid>>

\* the "Re-record" button of the review panel
SpReRecord ==
    /\ view = "speech"
    /\ sp.phase = "processing"
    /\ sp' = [sp EXCEPT !.phase = "active", !.audio = FALSE]
    /\ last' = ""
    /\ UNCHANGED <<SpOther, ops, nextSid>>

\* handleUploadAndAnalyze() up to `await uploadSpeechAudio(...)`
SpHandleUploadAndAnalyze ==
    /\ view = "speech"
    /\ sp.phase = "processing" /\ ~sp.loading
    /\ sp.audio /\ currentTrial(sp) # Null
    /\ PageCanSuspend
    /\ sp' = [sp EXCEPT !.loading = TRUE, !.error = ""]
    /\ ops' = Suspend(ops, [k |-> "sp.upload", pc |-> "upload", trialId |-> currentTrial(sp)])
    /\ last' = ""
    /\ UNCHANGED <<SpOther, nextSid>>

\* the upload is answered: on success the 2000 ms poll interval is set
SpUploadReply ==
    /\ view = "speech"
    /\ \E o \in Pending :
        /\ o.k = "sp.upload"
        /\ \E ok \in BOOLEAN :
            IF ok
            THEN /\ sp' = [sp EXCEPT !.uploaded = @ \cup {o.trialId}, !.attempts[o.trialId] = 0]
                 /\ ops' = Suspend(Resume(ops, o),
                                   [k |-> "sp.poll", pc |-> "interval", trialId |-> o.trialId])
            ELSE /\ sp' = [sp EXCEPT !.error = MsgError, !.loading = FALSE]
                 /\ ops' = Resume(ops, o)
    /\ last' = ""
    /\ UNCHANGED <<SpOther, nextSid>>

\* the poll interval fires: attempts++, getSpeechAnalysis(trial_id) is called; the
\* interval stays
SpPollFire ==
    /\ view = "speech"
    /\ PageCanSuspend
    /\ \E o \in Pending :
        /\ o.k = "sp.poll" /\ o.pc = "interval"
        /\ sp.attempts[o.trialId] < MaxPolls
        /\ ops' = Suspend(ops, [k |-> "sp.poll", pc |-> "analysis", trialId |-> o.trialId])
        /\ sp' = [sp EXCEPT !.attempts[o.trialId] = @ + 1]
    /\ last' = ""
    /\ UNCHANGED <<SpOther, nextSid>>

\* an analysis call is answered.  "done": processing_status is done or failed;
\* "pending": not done, or the call threw.  A done reply, and any reply that finds
\* attempts >= maxAttempts, clears the interval and enters phase "scoring".
SpAnalysisReply ==
    /\ view = "speech"
    /\ \E o \in Pending :
        /\ o.k = "sp.poll" /\ o.pc = "analysis"
        /\ \E r \in {"done", "pending"} :
            LET timer == [k |-> "sp.poll", pc |-> "interval", trialId |-> o.trialId]
            IN IF r = "pending" /\ sp.attempts[o.trialId] < SpMaxAttempts
               THEN /\ sp' = sp
                    /\ ops' = Resume(ops, o)
               ELSE /\ sp' = [sp EXCEPT !.phase = "scoring", !.loading = FALSE]
                    /\ ops' = Resume(ops, o) (-) SetToBag({timer})
    /\ last' = ""
    /\ UNCHANGED <<SpOther, nextSid>>

\* handleScore(score) up to `await scoreSpeechTrial(...)`; the buttons are disabled
\* while loading
SpHandleScore ==
    /\ view = "speech"
    /\ sp.phase = "scoring" /\ ~sp.loading
    /\ currentTrial(sp) # Null
    /\ PageCanSuspend
    /\ sp' = [sp EXCEPT !.loading = TRUE]
    /\ ops' = Suspend(ops, [k |-> "sp.score", pc |-> "score", trialId |-> currentTrial(sp),
                            idx |-> sp.idx, session |-> sp.session])
    /\ last' = ""
    /\ UNCHANGED <<SpOther, nextSid>>

\* the score call is answered
SpScoreReply ==
    /\ view = "speech"
    /\ \E o \in Pending :
        /\ o.k = "sp.score" /\ o.pc = "score"
        /\ \E res \in {Thrown, [session_complete |-> FALSE], [session_complete |-> TRUE]} :
            IF res = Thrown
            THEN /\ sp' = [sp EXCEPT !.error = MsgError, !.loading = FALSE]
                 /\ ops' = Resume(ops, o)
            ELSE IF res.session_complete \/ o.idx >= Len(o.session.trials) - 1
            THEN /\ sp' = [sp EXCEPT !.scored = @ \cup {o.trialId}]
                 /\ ops' = Suspend(Resume(ops, o),
                                   [k |-> "sp.score", pc |-> "summary",
                                    sid |-> o.session.session_id])
            ELSE /\ sp' = [sp EXCEPT !.scored = @ \cup {o.trialId}, !.idx = @ + 1,
                                     !.audio = FALSE, !.phase = "active", !.loading = FALSE]
                 /\ ops' = Resume(ops, o)
    /\ last' = ""
    /\ UNCHANGED <<SpOther, nextSid>>

\* handleScore resumed by the reply to getSpeechSessionSummary
SpSummaryReply ==
    /\ view = "speech"
    /\ \E o \in Pending :
        /\ o.k = "sp.score" /\ o.pc = "summary"
        /\ ops' = Resume(ops, o)
        /\ \E sum \in SummaryReplies(o.sid) :
            sp' = IF sum = Thrown THEN [sp EXCEPT !.error = MsgError, !.loading = FALSE]
                  ELSE [sp EXCEPT !.summary = sum, !.phase = "summary", !.loading = FALSE]
    /\ last' = ""
    /\ UNCHANGED <<SpOther, nextSid>>

\* handleNewSession(): "New Session", rendered with a session
SpHandleNewSession ==
    /\ view = "speech"
    /\ sp.session # NullObj
    /\ sp' = [sp EXCEPT !.session = NullObj, !.summary = NullObj, !.audio = FALSE,
                        !.idx = 0, !.phase = "setup", !.error = ""]
    /\ last' = ""
    /\ UNCHANGED <<SpOther, ops, nextSid>>

SpNext ==
    \/ SpHandleStartSession
    \/ SpStartSessionReply
    \/ SpHandleStartRecording
    \/ SpHandleStopRecording
    \/ SpReRecord
    \/ SpHandleUploadAndAnalyze
    \/ SpUploadReply
    \/ SpPollFire
    \/ SpAnalysisReply
    \/ SpHandleScore
    \/ SpScoreReply
    \/ SpSummaryReply
    \/ SpHandleNewSession

-----------------------------------------------------------------------------
(* apiFetch and refreshAccessToken (frontend/src/api/client.js)            *)

MaxCalls == 2         \* apiFetch calls made by the page

CallIds == 1..MaxCalls

\* token, refresh: the two localStorage entries are set; refreshPromise: a refresh is
\* in flight.  Per call, the history of it: requests sent, refreshes awaited, whether
\* the retried request was answered 401, whether the refresh it awaited failed, and
\* how it ended ("" before the call, "pending", "ok", "error").
NetInit(t, r) ==
    [token |-> t, refresh |-> r, refreshPromise |-> FALSE,
     sentN |-> [c \in CallIds |-> 0], refreshN |-> [c \in CallIds |-> 0],
     retried401 |-> [c \in CallIds |-> FALSE], refreshFailed |-> [c \in CallIds |-> FALSE],
     outcome |-> [c \in CallIds |-> ""]]

ApiOther == <<view, selectedChild, multiSelect, jaVars, ggVars, mmVars, sent, srvVars, sp, hub, sc>>

\* the options of the recursive call after the refresh
RetryOptionsSame(o) == [o EXCEPT !.pc = "fetch"]
RetryOptions(o) == [o EXCEPT !.pc = "fetch", !.retryOnAuth = FALSE]

\* refreshAccessToken(): `if (!refreshPromise) refreshPromise = (async () => ...)()`
\* sends the refresh request unless one is in flight
RefreshRequestAlways(inFlight) == SetToBag({[k |-> "api.refresh", pc |-> "fetch"]})
RefreshRequest(inFlight) ==
    IF inFlight THEN EmptyBag ELSE SetToBag({[k |-> "api.refresh", pc |-> "fetch"]})

\* apiFetch(path, {auth}) up to `await fetch(...)`
ApiFetch ==
    /\ view = "api"
    /\ \E c \in CallIds, auth \in BOOLEAN :
        /\ net.outcome[c] = ""
        /\ net' = [net EXCEPT !.outcome[c] = "pending", !.sentN[c] = 1]
        /\ ops' = Suspend(ops, [k |-> "api", pc |-> "fetch", id |-> c, auth |-> auth,
                                retryOnAuth |-> TRUE])
    /\ last' = ""
    /\ UNCHANGED ApiOther

\* the request is answered (status 0: fetch rejected).  On 401 with auth and
\* retryOnAuth, refreshAccessToken() is awaited: it throws without a refresh token,
\* starts the refresh request unless one is in flight, and returns refreshPromise.
ApiFetchReply ==
    /\ view = "api"
    /\ \E o \in Pending, status \in {0, 200, 401, 500} :
        /\ o.k = "api" /\ o.pc = "fetch"
        /\ IF status = 401 /\ o.auth /\ o.retryOnAuth
           THEN IF ~net.refresh
                THEN /\ net' = [net EXCEPT !.outcome[o.id] = "error",
                                           !.refreshN[o.id] = @ + 1,
                                           !.refreshFailed[o.id] = TRUE]
                     /\ ops' = Resume(ops, o)
                ELSE /\ net' = [net EXCEPT !.refreshPromise = TRUE, !.refreshN[o.id] = @ + 1]
                     /\ ops' = Resume(ops, o) (+) SetToBag({[o EXCEPT !.pc = "refresh"]})
                                (+) RefreshRequest(net.refreshPromise)
           ELSE IF status # 200
           THEN /\ net' = [net EXCEPT !.outcome[o.id] = "error",
                                      !.retried401[o.id] = (status = 401 /\ ~o.retryOnAuth)]
                /\ ops' = Resume(ops, o)
           ELSE /\ net' = [net EXCEPT !.outcome[o.id] = "ok"]
                /\ ops' = Resume(ops, o)
    /\ last' = ""
    /\ UNCHANGED ApiOther

\* the refresh request is answered: "access" (ok with an access token), "missing" (ok
\* without one), "rejected" (not ok: clearToken()), "network" (fetch rejected).
\* finally() clears refreshPromise; every apiFetch awaiting the promise resumes: it
\* calls apiFetch again, or throws what the refresh threw.
ApiRefreshReply ==
    /\ view = "api"
    /\ \E r \in Pending, res \in {"access", "missing", "rejected", "network"} :
        /\ r.k = "api.refresh"
        /\ LET waiting == {o \in Pending : o.k = "api" /\ o.pc = "refresh"}
               ids == {o.id : o \in waiting}
               rest == (ops (-) SetToBag({r})) (-) SetToBag(waiting)
           IN IF res = "access"
              THEN /\ net' = [net EXCEPT !.token = TRUE, !.refreshPromise = FALSE,
                                !.sentN = [c \in CallIds |-> IF c \in ids THEN @[c] + 1
                                                             ELSE @[c]]]
                   /\ ops' = rest (+) SetToBag({RetryOptions(o) : o \in waiting})
              ELSE /\ net' = [net EXCEPT
                                !.token = IF res = "rejected" THEN FALSE ELSE @,
                                !.refresh = IF res = "rejected" THEN FALSE ELSE @,
                                !.refreshPromise = FALSE,
                                !.refreshFailed = [c \in CallIds |-> @[c] \/ c \in ids],
                                !.outcome = [c \in CallIds |-> IF c \in ids THEN "error"
                                                               ELSE @[c]]]
                   /\ ops' = rest
    /\ last' = ""
    /\ UNCHANGED ApiOther

-----------------------------------------------------------------------------
(* ChildProvider and ChildSelector (frontend/src/hooks/useChild.jsx)       *)
(* Mounted once around the application; the effect of the first render     *)
(* has called refreshChildren().                                           *)

\* the children the server can list, in the order it lists them
HubAllChildren == <<"7", "8", "9">>

\* n: children the server holds; children: the state; closure: the selectedChild of
\* the first render, which refreshChildren (useCallback with no dependencies) reads;
\* userChose: the id the user chose last in the <select>, "" when none
HubInit(stored, n) ==
    [n |-> n, children |-> <<>>, closure |-> stored, userChose |-> ""]

HubOther == <<view, multiSelect, jaVars, ggVars, mmVars, sent, srvVars, sp, net, sc>>

\* refreshChildren() after `await listChildren()`
HubRefreshReply ==
    /\ view = "hub"
    /\ \E o \in Pending, ok \in BOOLEAN :
        /\ o.k = "hub.refresh"
        /\ ops' = Resume(ops, o)
        /\ LET arr == SubSeq(HubAllChildren, 1, hub.n)
           IN IF ok
              THEN /\ hub' = [hub EXCEPT !.children = arr]
                   /\ selectedChild' = IF ~TruthyStr(hub.closure) /\ Len(arr) > 0
                                       THEN arr[1] ELSE selectedChild
              ELSE /\ hub' = [hub EXCEPT !.children = <<>>]
                   /\ selectedChild' = selectedChild
    /\ last' = ""
    /\ UNCHANGED HubOther

\* the <select> of ChildSelector: selectChild(e.target.value)
HubSelectChild ==
    /\ view = "hub"
    /\ \E id \in Range(hub.children) \cup {""} :
        /\ selectedChild' = id
        /\ hub' = [hub EXCEPT !.userChose = id]
    /\ last' = ""
    /\ UNCHANGED <<HubOther, ops>>

\* handleAdd(e) up to `await createChild(...)`
HubHandleAdd ==
    /\ view = "hub"
    /\ hub.n + CopiesIn([k |-> "hub.add", pc |-> "create"], ops) < Len(HubAllChildren)
    /\ PageCanSuspend
    /\ ops' = Suspend(ops, [k |-> "hub.add", pc |-> "create"])
    /\ last' = ""
    /\ UNCHANGED <<HubOther, selectedChild, hub>>

\* handleAdd after createChild: refreshChildren() is called, or the error is shown
HubCreateReply ==
    /\ view = "hub"
    /\ \E o \in Pending, ok \in BOOLEAN :
        /\ o.k = "hub.add"
        /\ IF ok
           THEN /\ hub' = [hub EXCEPT !.n = @ + 1]
                /\ ops' = Suspend(Resume(ops, o), [k |-> "hub.refresh", pc |-> "list"])
           ELSE /\ hub' = hub
                /\ ops' = Resume(ops, o)
    /\ last' = ""
    /\ UNCHANGED <<HubOther, selectedChild>>

-----------------------------------------------------------------------------
(* SceneDescriptionGame (frontend/src/pages/games/SceneDescriptionGame.jsx) *)
(* imageUrl, scenarioTitle, prompt, aiHint, scenarioId, trialNum and the    *)
(* typed response are display-only and left out; evaluation is kept as a    *)
(* flag, since the "Next" button is rendered with it.                       *)

\* response_time_ms of handleSubmit's request body
ScResponseTimeMs == 5000

\* elapsed: history, the time since the current trial was installed
ScInit ==
    [sessionId |-> Null, trial |-> NullObj, summary |-> NullObj, status |-> "",
     loading |-> FALSE, error |-> "", submitting |-> FALSE, evaluation |-> FALSE,
     elapsed |-> NoTime]

\* next.detail.includes("No more planned trials")
ScNoMoreMarker == DetailNoMorePlanned

\* `next.summary || {}`
ScEmptySummary == [session_id |-> Null, src |-> "empty"]

ScOther == <<view, selectedChild, multiSelect, jaVars, ggVars, mmVars, sent, sp, net, hub>>

\* loadTrial(trialData), applied to the pending state s
loadTrial(s, trialData) ==
    [s EXCEPT !.trial = trialData, !.evaluation = FALSE, !.elapsed = 0]

\* startGame() up to `await startGameSession(...)`: "Start Game", rendered with a
\* child and without a session
ScStartGame ==
    /\ view = "scene"
    /\ TruthyStr(selectedChild) /\ ~TruthyStr(sc.sessionId) /\ ~sc.loading
    /\ PageCanSuspend
    /\ sc' = [sc EXCEPT !.loading = TRUE, !.error = ""]
    /\ ops' = Suspend(ops, [k |-> "sc.start", pc |-> "start"])
    /\ last' = ""
    /\ UNCHANGED <<ScOther, srvVars>>

ScStartReply ==
    /\ view = "scene"
    /\ \E o \in Pending, res \in StartReplies(FreshSid, FreshTid) :
        /\ o.k = "sc.start"
        /\ ops' = Resume(ops, o)
        /\ nextSid' = SidAfter(res)
        /\ nextTid' = TidAfter(res)
        /\ IF res = Thrown
           THEN sc' = [sc EXCEPT !.error = MsgError, !.loading = FALSE]
           ELSE LET s1 == [sc EXCEPT !.sessionId = Get(GetObj(res, "session"), "session_id"),
                                     !.status = Get(GetObj(res, "session"), "status"),
                                     !.loading = FALSE]
                    first == GetObj(res, "first_trial")
                IN sc' = IF TruthyObj(first) /\ ~Has(first, "detail")
                         THEN loadTrial(s1, first)
                         ELSE IF TruthyObj(GetObj(res, "summary"))
                         THEN [s1 EXCEPT !.summary = res.summary, !.status = "completed"]
                         ELSE s1
    /\ last' = ""
    /\ UNCHANGED ScOther

\* handleSubmit() up to `await apiFetch(...)`: without a trial, `trial.id` throws
\* inside the try and nothing is sent
ScHandleSubmit ==
    /\ view = "scene"
    /\ TruthyStr(sc.sessionId) /\ sc.status # "completed"
    /\ ~sc.evaluation /\ ~sc.submitting
    /\ TruthyObj(sc.trial)
    /\ PageCanSuspend
    /\ sc' = [sc EXCEPT !.submitting = TRUE]
    /\ ops' = Suspend(ops, [k |-> "sc.submit", pc |-> "submit", rt |-> ScResponseTimeMs,
                            elapsed |-> sc.elapsed])
    /\ last' = ""
    /\ UNCHANGED <<ScOther, srvVars>>

ScSubmitReply ==
    /\ view = "scene"
    /\ \E o \in Pending, ok \in BOOLEAN :
        /\ o.k = "sc.submit"
        /\ ops' = Resume(ops, o)
        /\ sc' = [sc EXCEPT !.evaluation = IF ok THEN TRUE ELSE @, !.submitting = FALSE]
    /\ last' = ""
    /\ UNCHANGED <<ScOther, srvVars>>

\* one tick of the wall clock while a scenario is shown
ScTick ==
    /\ view = "scene"
    /\ sc.elapsed # NoTime /\ sc.elapsed < MaxTicks * TickMs
    /\ sc' = [sc EXCEPT !.elapsed = Age(@)]
    /\ last' = ""
    /\ UNCHANGED <<ScOther, srvVars, ops>>

\* handleNext() up to `await nextGameTrial(...)`: "Next", rendered with an evaluation
ScHandleNext ==
    /\ view = "scene"
    /\ TruthyStr(sc.sessionId) /\ sc.status # "completed"
    /\ sc.evaluation
    /\ PageCanSuspend
    /\ ops' = Suspend(ops, [k |-> "sc.next", pc |-> "next", sid |-> sc.sessionId])
    /\ last' = ""
    /\ UNCHANGED <<ScOther, srvVars, sc>>

ScNextReply ==
    /\ view = "scene"
    /\ \E o \in Pending :
       o.k = "sc.next" /\ \E next \in NextReplies(o.sid, FreshTid) :
        /\ ops' = Resume(ops, o)
        /\ nextTid' = TidAfter(next)
        /\ sc' = IF next = Thrown THEN sc
                 ELSE IF Has(next, "detail") /\ includes(next.detail, ScNoMoreMarker)
                 THEN [sc EXCEPT !.summary = IF TruthyObj(GetObj(next, "summary"))
                                             THEN next.summary ELSE ScEmptySummary,
                                 !.status = "completed"]
                 ELSE loadTrial(sc, next)
    /\ last' = ""
    /\ UNCHANGED <<ScOther, nextSid>>

-----------------------------------------------------------------------------
(* Environment: child selection and the clock                              *)

\* ChildProvider.refreshChildren(): auto-selects the first child when nothing is selected
RefreshChildren ==
    /\ selectedChild = ""
    /\ \E c \in ChildIds : selectedChild' = c
    /\ last' = ""
    /\ UNCHANGED <<view, jaVars, ggVars, mmVars, ops, srvVars, sent, pageVars>>

\* one tick of the wall clock (Date.now / performance.now advance by TickMs); a due
\* timer fires before the clock moves on, and React commits before the next tick
Tick ==
    /\ jaR = JaSnapshot /\ ggR = GgSnapshot /\ mmR = MmSnapshot
    /\ jaElapsed # NoTime \/ ggElapsed # NoTime \/ mmElapsed # NoTime
    /\ jaElapsed < MaxTicks * TickMs
    /\ ggElapsed < MaxTicks * TickMs
    /\ mmElapsed < MaxTicks * TickMs
    /\ ~Due(ggTimer) /\ ~Due(mmInterval)
    /\ jaElapsed' = Age(jaElapsed)
    /\ ggElapsed' = Age(ggElapsed)
    /\ mmElapsed' = Age(mmElapsed)
    /\ ggTimer' = AgeTimer(ggTimer)
    /\ mmInterval' = AgeTimer(mmInterval)
    /\ last' = ""
    /\ UNCHANGED <<view, selectedChild, multiSelect, ja, jaR, gg, ggR, mm, mmR, ops, srvVars,
                   sent, pageVars>>

Init ==
    /\ view \in {"ja", "generic", "memory"}
    /\ selectedChild \in ChildIds \cup {""}
    /\ multiSelect \in (IF view = "generic" THEN BOOLEAN ELSE {FALSE})
    /\ ja = JaInit
    /\ jaR = JaSnapshot
    /\ jaElapsed = NoTime
    /\ gg = GgInit
    /\ ggR = GgSnapshot
    /\ ggElapsed = NoTime
    /\ ggTimer = NullObj
    /\ mm = MmInit
    /\ mmR = MmSnapshot
    /\ mmElapsed = NoTime
    /\ mmInterval = NullObj
    /\ ops = EmptyBag
    /\ nextSid = 1
    /\ nextTid = 1
    /\ sent = NoSubmits
    /\ last = ""
    /\ sp = SpInit
    /\ net = NetInit(FALSE, FALSE)
    /\ hub = HubInit(selectedChild, 0)
    /\ sc = ScInit

Next == JaNext \/ GgNext \/ MmNext \/ RefreshChildren \/ Tick

Spec == Init /\ [][Next]_vars

-----------------------------------------------------------------------------
(* The pages outside the three game components                             *)

PagesInit ==
    /\ view \in {"speech", "api", "hub", "scene"}
    /\ selectedChild \in ChildIds \cup {""}
    /\ multiSelect = FALSE
    /\ ja = JaInit
    /\ jaR = JaSnapshot
    /\ jaElapsed = NoTime
    /\ gg = GgInit
    /\ ggR = GgSnapshot
    /\ ggElapsed = NoTime
    /\ ggTimer = NullObj
    /\ mm = MmInit
    /\ mmR = MmSnapshot
    /\ mmElapsed = NoTime
    /\ mmInterval = NullObj
    /\ ops = (IF view = "hub" THEN SetToBag({[k |-> "hub.refresh", pc |-> "list"]}) ELSE EmptyBag)
    /\ nextSid = 1
    /\ nextTid = 1
    /\ sent = NoSubmits
    /\ last = ""
    /\ sp = SpInit
    /\ \E t, r \in BOOLEAN : net = NetInit(t, r)
    /\ \E n \in (IF view = "hub" THEN {0, 2} ELSE {0}) : hub = HubInit(selectedChild, n)
    /\ sc = ScInit

PagesNext ==
    \/ SpNext
    \/ ApiFetch
    \/ ApiFetchReply
    \/ ApiRefreshReply
    \/ HubRefreshReply
    \/ HubSelectChild
    \/ HubHandleAdd
    \/ HubCreateReply
    \/ ScStartGame
    \/ ScStartReply
    \/ ScHandleSubmit
    \/ ScSubmitReply
    \/ ScTick
    \/ ScHandleNext
    \/ ScNextReply

PagesSpec == PagesInit /\ [][PagesNext]_vars

-----------------------------------------------------------------------------
(* The controller state of the mounted component, read off its hook state  *)
(* (the pending state: what the next render will show)                     *)

Ctl ==
    IF view = "ja"
    THEN [sessionId |-> ja.sessionId, trial |-> ja.trial, trialId |-> ja.trialId,
          summary |-> ja.summary, busy |-> ja.submitting, completed |-> ja.completed,
          message |-> ja.statusText]
    ELSE IF view = "generic"
    THEN [sessionId |-> gg.sessionId, trial |-> gg.trial, trialId |-> Get(gg.trial, "trial_id"),
          summary |-> gg.summary, busy |-> gg.loading, completed |-> TruthyObj(gg.summary),
          message |-> gg.error]
    ELSE [sessionId |-> mm.sessionId, trial |-> mm.trial, trialId |-> Get(mm.trial, "trial_id"),
          summary |-> mm.summary, busy |-> mm.loading, completed |-> TruthyObj(mm.summary),
          message |-> mm.error]

\* Idle: no session, no trial, no summary, nothing in progress
Idle ==
    /\ ~TruthyStr(Ctl.sessionId)
    /\ Ctl.trial = NullObj
    /\ Ctl.summary = NullObj
    /\ ~Ctl.busy
    /\ ~Ctl.completed

\* Completed with a summary stored and no current trial
CompletedWithSummary == Ctl.completed /\ TruthyObj(Ctl.summary) /\ Ctl.trial = NullObj

\* a summary fetch (GET summary) is in flight
SummaryFetchPending == \E o \in Pending : o.pc = "summary"

\* the user can still get a submission sent for the current trial
CanSubmitAgain ==
    IF view = "ja" THEN canClick(ja) /\ GetSeq(ja.trial, "options") # <<>>
    ELSE IF view = "generic"
    THEN /\ TruthyObj(gg.trial) /\ ~gg.showFeedback /\ ~gg.loading
         /\ GetSeq(gg.trial, "options") # <<>>
    ELSE \/ mm.timeLeft > 0
         \/ ~mm.lockBoard /\ ~mm.loading /\ mm.cards # <<>> /\ ~AllPairsFound(mm)

\* the time limit of the current trial (0: none) and the time since it became current
CurLimit ==
    IF view = "ja" THEN GetNum(ja.trial, "time_limit_ms")
    ELSE IF view = "generic" THEN GetNum(gg.trial, "time_limit_ms")
    ELSE IF GetNum(mm.trial, "time_limit_ms") # 0 THEN mm.trial.time_limit_ms
    ELSE mm.numPairs * MmMsPerPair
CurElapsed ==
    IF view = "ja" THEN jaElapsed ELSE IF view = "generic" THEN ggElapsed ELSE mmElapsed

-----------------------------------------------------------------------------
(* Properties                                                              *)

\* C1: at most one submission is sent per trial: a trial never has both a timeout
\* submission and a manual one (option click, multi-select confirm, board completion)
\* in flight or answered, whatever their order and timing.
C1_OneSubmissionPerTrial ==
    ~(Submitted("timeout") >= 1 /\ Submitted("manual") >= 1)

\* the timeout submission and a manual one of the same trial are both in flight
C1_GenericTimeoutThenClick ==
    view = "generic" /\ InFlight(LatestTid, "timeout") = 1 /\ InFlight(LatestTid, "manual") = 1

\* C2: double-submit guard: two manual submissions fired against the same rendered
\* state yield one transport submit call, so never two manual calls for a trial are
\* in flight.
C2_DoubleSubmitGuard ==
    InFlight(LatestTid, "manual") <= 1

\* two option clicks on one render of JaGame, both submitted
C2_JaTwoClicksOneRender ==
    view = "ja" /\ InFlight(LatestTid, "manual") = 2

\* C3: reset invoked in any controller state yields Idle: when reset finishes, session
\* id, trial and summary are null and the submitting/loading and completed flags are
\* cleared.
C3_ResetYieldsIdle ==
    last = "reset" => Idle

\* reset finished while a submission was in progress, and the loading flag stayed set
C3_GenericResetWhileSubmitting ==
    view = "generic" /\ last = "reset" /\ gg.loading /\ ~TruthyStr(gg.sessionId)

\* C4: when a submit-trial response indicates session completion, the controller goes
\* to Completed with a summary (inline, else fetched by session id), clears the trial,
\* and makes no next-trial call on behalf of that response.
C4_SubmitCompletion ==
    /\ \A o \in Pending : (o.pc = "next" /\ Has(o, "res")) => ~o.res.session_completed
    /\ last = "submit.completed" => (CompletedWithSummary \/ SummaryFetchPending)

\* a submit response with session_completed and no summary is followed by a next-trial call
C4_GenericNextAfterCompletion ==
    \E o \in Pending : o.k = "gg.submit" /\ o.pc = "next" /\ o.res.session_completed

\* C5: whenever the start-session response includes a summary, the controller stores
\* that summary and is Completed without a trial installed, whatever else the
\* response contains.
C5_ImmediateCompletion ==
    last = "start.summary" =>
        /\ CompletedWithSummary
        /\ Ctl.summary.src = "start"

\* a start response with a first trial and a summary leaves the trial installed
C5_GenericTrialInstalled ==
    view = "generic" /\ last = "start.summary" /\ TruthyObj(gg.trial)

\* C6: a terminal sentinel, as first trial of a start response or as result of a
\* next-trial call, makes the controller resolve the summary (inline, else an explicit
\* fetch) and end in Completed with the summary stored and the trial cleared.
C6_SentinelHandling ==
    last = "sentinel" => (CompletedWithSummary \/ SummaryFetchPending)

\* a sentinel first trial without inline summary: session kept, no summary, no fetch
C6_GenericSentinelNoSummary ==
    /\ view = "generic" /\ last = "sentinel"
    /\ TruthyStr(gg.sessionId) /\ gg.summary = NullObj /\ ops = EmptyBag

\* C7: start with no child selected fails fast: no transport call is made, a
\* validation message is set, and the controller is in Idle afterwards.
C7_StartWithoutChild ==
    last = "start.nochild" =>
        /\ ops = EmptyBag
        /\ TruthyStr(Ctl.message)
        /\ Idle

\* start was invoked with no child selected
C7_StartedWithoutChild ==
    last = "start.nochild" /\ selectedChild = ""

\* C8: if a transport call made while starting a session fails (the start-session call
\* or the summary fetch for a sentinel first trial), a message is surfaced and no
\* partial session is retained: session id, trial and summary are null afterwards.
C8_StartFailure ==
    last \in {"start.failed", "start.fetchfailed"} =>
        /\ TruthyStr(Ctl.message)
        /\ ~TruthyStr(Ctl.sessionId)
        /\ Ctl.trial = NullObj
        /\ Ctl.summary = NullObj

\* the summary fetch for a sentinel first trial failed and the session id is kept
C8_JaSessionKeptAfterFetchFailure ==
    view = "ja" /\ last = "start.fetchfailed" /\ TruthyStr(ja.sessionId)

\* C9: if the submit-trial call for the current trial fails, a message is surfaced,
\* session id and trial are unchanged, the submitting/loading flag is cleared, and the
\* user can submit that trial again.
C9_SubmitFailureRecovers ==
    [][\A o \in Pending :
         (/\ o.pc = "submit"
          /\ ops' = Resume(ops, o)
          /\ last' = "submit.failed"
          /\ Ctl.trialId = o.trialId)
         => (/\ TruthyStr(Ctl'.message)
             /\ Ctl'.sessionId = Ctl.sessionId
             /\ Ctl'.trial = Ctl.trial
             /\ ~Ctl'.busy
             /\ CanSubmitAgain')]_vars

\* the submission of a completed board failed: the board stays locked, no countdown runs
C9_MemoryStuckAfterFailure ==
    /\ view = "memory" /\ last = "submit.failed"
    /\ TruthyObj(mm.trial) /\ AllPairsFound(mm) /\ mm.lockBoard /\ mm.timeLeft = NoTime

\* C10: for every trial that becomes current, if no submission is sent within its
\* time limit, a synthetic submission with timed_out = true and an empty response
\* value is sent for it through the submit routine manual responses use.
C10_TimeoutSubmission ==
    /\ (/\ TruthyStr(Ctl.trialId) /\ Ctl.trialId = LatestTid
        /\ CurLimit > 0 /\ CurElapsed > CurLimit
        /\ "manual" \notin sent.made)
       => "timeout" \in sent.made
    /\ \A o \in Pending :
         (o.pc = "submit" /\ o.origin = "timeout")
           => (o.timedOut /\ o.k = "gg.submit" /\ o.clicked = <<>>)

\* a JaGame trial is past its time limit and nothing was submitted for it
C10_JaNoTimeout ==
    /\ view = "ja" /\ TruthyStr(ja.trialId) /\ ja.trialId = LatestTid
    /\ jaElapsed > ja.trial.time_limit_ms
    /\ sent.made = {}

C12_CompletedTerminal ==
    [][(Ctl.completed /\ last' # "reset") =>
          /\ Ctl'.completed
          /\ Ctl'.trial = NullObj \/ Ctl'.trial = Ctl.trial
          /\ \A o \in BagToSet(ops') :
                o.pc \in {"submit", "next"} => CopiesIn(o, ops') <= CopiesIn(o, ops)]_vars

\* JaGame is Completed and a trial fetched by a loadNext still pending is current
C12_JaTrialWhileCompleted ==
    view = "ja" /\ ja.completed /\ TruthyObj(ja.trial) /\ TruthyStr(ja.trialId)

\* the session a suspended handler or timer callback was started for
OpSession(o) ==
    IF Has(o, "sid") THEN o.sid ELSE IF Has(o, "sessionId") THEN o.sessionId ELSE Null

\* C13: no cross-session bleed: a reply or timer still pending from a session that is
\* no longer the controller's session (the controller was reset, or a new session was
\* started) does not change the controller's state when it is handled.
C13_NoCrossSessionBleed ==
    [][\A o \in Pending :
         (/\ CopiesIn(o, ops') < CopiesIn(o, ops)
          /\ TruthyStr(OpSession(o))
          /\ OpSession(o) # Ctl.sessionId)
         => Ctl' = Ctl]_vars

\* JaGame was reset and a trial of the earlier session has become current
C13_JaTrialAfterReset ==
    view = "ja" /\ ~TruthyStr(ja.sessionId) /\ TruthyObj(ja.trial) /\ ~ja.completed

\* the ids of a selection written one after the other with "," between them
CommaJoined(ids) ==
    [i \in 1..(2 * Len(ids) - 1) |-> IF i % 2 = 1 THEN ids[(i + 1) \div 2] ELSE ","]

\* C14: multi-select confirm: with nothing selected no submit call is made; with a
\* non-empty selection one submit is sent whose value is the selected ids joined by
\* commas in the order they were selected, ids toggled off left out; the selection
\* never holds an id twice.
C14_MultiSelectConfirm ==
    [][(view = "generic" /\ multiSelect) =>
          /\ \A i, j \in DOMAIN gg'.selectedItems :
                gg'.selectedItems[i] = gg'.selectedItems[j] => i = j
          /\ \A o \in BagToSet(ops') :
                (/\ o.k = "gg.submit" /\ o.pc = "submit" /\ o.origin = "manual"
                 /\ CopiesIn(o, ops') > CopiesIn(o, ops))
                => /\ ggR.selectedItems # <<>>
                   /\ o.clicked = CommaJoined(ggR.selectedItems)
                   /\ CopiesIn(o, ops') = CopiesIn(o, ops) + 1
                   /\ BagCardinality(ops') = BagCardinality(ops) + 1]_vars

\* "dog" then "cat" were selected and confirmed: the value sent is "dog,cat"
C14_DogThenCat ==
    /\ view = "generic" /\ multiSelect
    /\ \E o \in Pending :
          o.k = "gg.submit" /\ o.pc = "submit" /\ ~o.timedOut /\ o.clicked = <<"dog", ",", "cat">>

\* the board-complete submissions in flight for trial tid
BoardCompleteCalls(tid) ==
    {o \in Pending : o.k = "mm.boardComplete" /\ o.pc = "submit" /\ o.trialId = tid}

-----------------------------------------------------------------------------
(* Audio capture: upload, then score                                       *)

SpScoreCalls == {o \in Pending : o.k = "sp.score" /\ o.pc = "score"}

\* C16: a score call is in flight for a trial only when the upload for that same trial
\* has completed, and never for a trial whose score call was already answered
C16_UploadThenScoreOnce ==
    \A o \in SpScoreCalls : o.trialId \in sp.uploaded /\ o.trialId \notin sp.scored

\* a second score call is in flight for a trial that was already scored
C16_ScoredTrialScoredAgain ==
    /\ view = "speech"
    /\ \E o \in SpScoreCalls : o.trialId \in sp.scored /\ o.trialId \in sp.uploaded

-----------------------------------------------------------------------------
(* apiFetch: one refresh and one retry per call                            *)

\* C17: an apiFetch call awaits at most one refresh and sends its request at most twice
\* (the second time only after the refresh it awaited), and a call whose retried
\* request was answered 401, or whose refresh failed, has ended with an error: it has
\* nothing in flight and awaited no further refresh
C17_OneRefreshAndRetry ==
    \A c \in CallIds :
        /\ net.refreshN[c] <= 1
        /\ net.sentN[c] <= 1 + net.refreshN[c]
        /\ (net.retried401[c] \/ net.refreshFailed[c]) =>
              /\ net.outcome[c] = "error"
              /\ \A o \in Pending : o.k = "api" => o.id # c

\* a call was retried after its refresh, the retry was answered 401, and it ended in error
C17_Retried401 ==
    /\ view = "api"
    /\ \E c \in CallIds :
        net.retried401[c] /\ net.sentN[c] = 2 /\ net.refreshN[c] = 1 /\ net.outcome[c] = "error"

-----------------------------------------------------------------------------
(* The selected child                                                      *)

\* C18: once the user has chosen a child in the selector, the selected child id is the
\* one the user chose last: no refresh of the list and no added child changes it
C18_SelectionOnlyByUser ==
    TruthyStr(hub.userChose) => selectedChild = hub.userChose

\* the user chose a child other than the first of the list, and after adding a child
\* the refreshed list's first child is selected instead
C18_SelectionOverwritten ==
    /\ view = "hub"
    /\ TruthyStr(hub.userChose)
    /\ hub.userChose \in Range(hub.children)
    /\ selectedChild = hub.children[1]
    /\ selectedChild # hub.userChose

-----------------------------------------------------------------------------
(* Defaults of an installed trial                                          *)

\* C19: a current trial that came from a payload without the optional fields has its
\* declared fields present with the defaults: prompt "", options empty, time limit
\* 10000 ms, level 1
C19_InstalledTrialDefaults ==
    LET t == Ctl.trial
        defaults == [prompt |-> "", options |-> <<>>, time_limit_ms |-> JaDefaultTimeLimitMs,
                     level |-> 1]
    IN (TruthyObj(t) /\ ~Has(t, "detail") /\ Get(t, "highlight") = Null) =>
          \A f \in DOMAIN defaults : Has(t, f) /\ t[f] = defaults[f]

\* GenericGame has committed a trial that has an id but no prompt, level or time
\* limit, and its effect armed no timeout timer for it
C19_GgTrialWithoutTimeLimit ==
    /\ view = "generic"
    /\ ggR = GgSnapshot
    /\ TruthyStr(Get(gg.trial, "trial_id"))
    /\ ~Has(gg.trial, "prompt") /\ ~Has(gg.trial, "level") /\ ~Has(gg.trial, "time_limit_ms")
    /\ gg.trial.options = <<>>
    /\ ggTimer = NullObj

-----------------------------------------------------------------------------
(* The end-of-session sentinel                                             *)

\* C20: a payload whose detail text contains "no more" in any casing is treated as
\* the end of the session: SceneDescriptionGame never installs it as the current trial
C20_NoMoreAnyCasing ==
    view = "scene" => ~isNoMore(sc.trial)

\* SceneDescriptionGame shows the sentinel "NO MORE" as a trial of a running session
C20_UpperCaseSentinelAsTrial ==
    /\ view = "scene"
    /\ TruthyStr(sc.sessionId)
    /\ sc.status # "completed"
    /\ Has(sc.trial, "detail") /\ sc.trial.detail = DetailNoMoreUpper

-----------------------------------------------------------------------------
(* Submit, then next trial                                                 *)

\* next-trial calls of JaGame that are in flight
JaNextCalls == {o \in Pending : o.k = "ja.loadNext" /\ o.pc = "next"}

\* C21: in JaGame a next-trial call is in flight only after a submission for the
\* current trial was accepted, at most one next-trial call is in flight, and while the
\* controller is on its way to the next trial (the 250 ms timer or the next-trial call
\* is pending) no submit-trial call is in flight
C21_SubmitThenNext ==
    view = "ja" =>
        /\ JaNextCalls # {} => sent.accepted # {}
        /\ \A o \in JaNextCalls : CopiesIn(o, ops) = 1
        /\ (JaNextCalls # {} \/ \E o \in Pending : o.k = "ja.onPick" /\ o.pc = "timer") =>
              \A o \in Pending : o.pc # "submit"

\* the "Next Trial" button has issued a next-trial call for a session whose current
\* trial was never submitted
C21_NextWithoutSubmission ==
    /\ view = "ja"
    /\ TruthyStr(ja.trialId) /\ ja.trialId = LatestTid
    /\ sent = NoSubmits
    /\ \E o \in JaNextCalls : o.sid = ja.sessionId

-----------------------------------------------------------------------------
(* The timed-out flag of a submission                                      *)

\* submit-trial calls in flight that a user action made (option click, multi-select
\* confirm, board completion), for a trial with a time limit
ManualSubmits ==
    {o \in Pending : /\ o.k \in {"ja.onPick", "gg.submit", "mm.boardComplete"}
                     /\ o.pc = "submit" /\ o.origin = "manual" /\ o.limit # 0}

\* C22: the timed-out flag of a manual submission is elapsed > time limit of the
\* submitted trial: true when sent after the limit, false when sent within it
C22_TimedOutComputed ==
    \A o \in ManualSubmits : o.timedOut <=> (o.rt > o.limit)

\* a manual submission sent after the trial's time limit carries timed_out = false
C22_LateManualNotTimedOut ==
    \E o \in ManualSubmits : o.rt > o.limit /\ ~o.timedOut

-----------------------------------------------------------------------------
(* The response time of a submission                                       *)

\* C23: the response time sent with a SceneDescriptionGame submission is the time
\* since the submitted scenario was installed
C23_ResponseTimeFromInstall ==
    \A o \in Pending : o.k = "sc.submit" => o.rt = o.elapsed

\* a description submitted 1000 ms after its scenario was installed is sent with a
\* response time of 5000 ms
C23_FixedResponseTime ==
    /\ view = "scene"
    /\ \E o \in Pending : o.k = "sc.submit" /\ o.elapsed = TickMs /\ o.rt = ScResponseTimeMs

-----------------------------------------------------------------------------
(* The memory board lock                                                   *)

\* C24: at most two cards are face-up and unmatched, and a card flip is accepted only
\* when fewer than two cards are face-up, no compared pair is waiting for its delayed
\* match or flip-back, and no board submission is in progress
C24_BoardLock ==
    /\ [](Len(mm.flippedIds) <= 2)
    /\ [][last' = "flip" =>
            /\ Len(mm.flippedIds) < 2
            /\ ~mm.lockBoard
            /\ ~mm.loading
            /\ \A o \in Pending : o.k # "mm.flip"]_vars

\* a card was flipped while the timed-out submission of the board was in progress
C24_FlipDuringSubmission ==
    /\ view = "memory"
    /\ last = "flip"
    /\ mm.loading /\ mm.lockBoard
    /\ \E o \in Pending : o.k = "mm.timedOut" /\ o.pc = "submit"

-----------------------------------------------------------------------------
(* Analysis polling                                                        *)

\* C25: after one upload at most 30 analysis requests are issued
C25_PollingBounded ==
    \A t \in Range(SpTrials) : sp.attempts[t] <= SpMaxAttempts

\* the 31st analysis request of one upload is in flight, the poll interval still set
C25_ThirtyFirstRequest ==
    /\ view = "speech"
    /\ \E o \in Pending :
        /\ o.k = "sp.poll" /\ o.pc = "analysis"
        /\ sp.attempts[o.trialId] = SpMaxAttempts + 1
        /\ [k |-> "sp.poll", pc |-> "interval", trialId |-> o.trialId] \in Pending

\* C26: once the session was reset (New Session) polling has stopped: no poll interval
\* is set, and no poll response has put the controller into the scoring phase
C26_PollStopsOnReset ==
    sp.session = NullObj =>
        /\ \A o \in Pending : ~(o.k = "sp.poll" /\ o.pc = "interval")
        /\ sp.phase # "scoring"

\* after New Session a late analysis response has set the phase to scoring
C26_ScoringAfterReset ==
    /\ view = "speech"
    /\ sp.session = NullObj
    /\ sp.phase = "scoring"
    /\ sp.uploaded # {}

-----------------------------------------------------------------------------
(* Completed means no current trial (JaGame)                               *)

\* C27: in JaGame the completed flag implies that there is no current trial: trial
\* and trial id are null
C27_CompletedNoTrial ==
    (view = "ja" /\ ja.completed) => (ja.trial = NullObj /\ ja.trialId = Null)

\* JaGame is completed with a summary and has a current trial
C27_CompletedWithTrial ==
    /\ view = "ja"
    /\ ja.completed /\ TruthyObj(ja.summary)
    /\ TruthyObj(ja.trial) /\ TruthyStr(ja.trialId)

-----------------------------------------------------------------------------
(* One token refresh in flight                                             *)

\* apiFetch calls suspended at `await refreshAccessToken()`
AwaitingRefresh == {o \in Pending : o.k = "api" /\ o.pc = "refresh"}

\* C28: at most one refresh request is in flight, refreshPromise is set exactly while
\* it is, every call that awaits a refresh awaits that request (calls answered 401
\* concurrently share it, a call answered 401 after it settled has started a new one),
\* and such a call has sent its own request once and awaits its only refresh
C28_SingleRefreshInFlight ==
    LET refreshOp == [k |-> "api.refresh", pc |-> "fetch"]
    IN /\ CopiesIn(refreshOp, ops) <= 1
       /\ net.refreshPromise <=> refreshOp \in Pending
       /\ AwaitingRefresh # {} => refreshOp \in Pending
       /\ \A o \in AwaitingRefresh : net.sentN[o.id] = 1 /\ net.refreshN[o.id] = 1

\* two calls were answered 401 and await the same, single refresh request
C28_TwoCallsShareRefresh ==
    /\ view = "api"
    /\ Cardinality(AwaitingRefresh) = 2
    /\ CopiesIn([k |-> "api.refresh", pc |-> "fetch"], ops) = 1

-----------------------------------------------------------------------------
(* The value a countdown expiry submits                                    *)

\* the timed-out submissions in flight
TimedOutSubmits == {o \in Pending : o.k = "mm.timedOut" /\ o.pc = "submit"}

\* C29: the submission sent when the memory-match countdown expires encodes the pairs
\* matched and the moves made as of the moment it is sent
C29_TimedOutValueCurrent ==
    [][last' = "timedOut" =>
          \A o \in BagToSet(ops') :
              (o.k = "mm.timedOut" /\ o.pc = "submit" /\ o \notin TimedOutSubmits) =>
                  o.clicked = submitValue(mm)]_vars

\* the countdown has just expired and its submission reports fewer moves than made
C29_TimedOutValueStale ==
    /\ view = "memory" /\ last = "timedOut"
    /\ \E o \in TimedOutSubmits : o.clicked.moves < mm.moves

-----------------------------------------------------------------------------
(* GenericGame: a trial belongs to a session                               *)

\* C30: in GenericGame a current trial exists only if a session id exists, also when
\* Reset is pressed while a submission, the feedback delay or a next-trial fetch is
\* pending
C30_TrialOnlyWithSession ==
    view = "generic" => (TruthyObj(gg.trial) => TruthyStr(gg.sessionId))

\* Reset finished while a next-trial fetch was pending, and the fetch's reply has just
\* installed a trial although the session id is null
C30_TrialInstalledAfterReset ==
    /\ view = "generic" /\ last = "next.trial"
    /\ TruthyObj(gg.trial) /\ ~TruthyStr(gg.sessionId)

====
